---- MODULE Spec2Model ----
(***************************************************************************)
(* Retrieval engine of ai-mentor: the Redis-backed embedding cache         *)
(* (rag/embedding.py, utils/redis.py, services/document_processor.py) and  *)
(* the vector store with its search result cache (rag/vector_store.py).    *)
(*                                                                         *)
(* Strings are sequences of one-character strings.  Floating point values  *)
(* are fixed-point integers: a cosine similarity is held in hundredths, a  *)
(* hybrid score in thousandths.  MD5 is taken to be collision free, so a   *)
(* cache key is the string that is hashed, kept as a sequence of tokens.   *)
(* An exception leaving a call is the call's err field.                    *)
(***************************************************************************)
EXTENDS Integers, Sequences, FiniteSets, TLC

VARIABLES
    redis,          \* utils/redis.py: the key-value store behind redis_cache
    redis_up,       \* whether the Redis server answers (FALSE: the client raises)
    model_name,     \* EmbeddingModel.model_name
    model_loaded,   \* EmbeddingModel._model_loaded
    use_pgvector,   \* vector_store.use_pgvector, fixed when the module is imported
    db_up,          \* whether the database answers (FALSE: the session raises)
    knowledge_bases,\* ids of the rows of table knowledge_bases
    documents,      \* rows of table documents, in id order
    chunks,         \* rows of table chunks, in id order
    pc,             \* per thread: where it is inside its call
    local,          \* per thread: the locals of its call
    invocations,    \* how often the capability encoded each text (threads)
    last            \* the last completed call: its arguments and what it returned

vars == <<redis, redis_up, model_name, model_loaded, use_pgvector, db_up, knowledge_bases,
          documents, chunks, pc, local, invocations, last>>

----------------------------------------------------------------------------
(* Bounds *)

MaxTexts == 3       \* longest enumerated input list of embed_documents
MaxOver == 1        \* how far past one batch the long input lists go
MaxContents == 2    \* longest input list of the calls of SpecEmbed
TailLen == 1        \* components of a vector beyond the cache key prefix
MaxRows == 3        \* rows of an enumerated chunk table
MaxStored == 2      \* rows the add_chunks calls of a run may store
MaxTopK == 3        \* largest top_k of a search
MaxKb == 2          \* knowledge bases
MaxCalls == 2       \* embed_query calls of one thread
MaxDocs == 1        \* rows the add_document calls of a run may store
MaxDim == 2         \* longest vector handed to cosine_similarity alone
MaxComp == 2        \* largest component of such a vector
MaxLen == 4         \* longest text handed to the splitter
MaxChunk == 3       \* largest chunk_size of a splitter

----------------------------------------------------------------------------
(* Python helpers *)

\* An Optional value is a sequence of at most one element: None is empty.
None == <<>>
Some(v) == <<v>>
Value(opt) == opt[1]

\* Python truthiness of an Optional list: None and the empty list are falsy.
Truthy(opt) == opt # None /\ Value(opt) # <<>>

\* list.insert(idx, x) with a zero-based idx; past the end it appends.
InsertAtEnd(lst, idx, x) == Append(lst, x)
InsertAt(lst, idx, x) ==
    IF idx >= Len(lst) THEN Append(lst, x)
    ELSE SubSeq(lst, 1, idx) \o <<x>> \o SubSeq(lst, idx + 1, Len(lst))

\* lst[a:b] for 0 <= a <= b.
Slice(lst, a, b) ==
    LET hi == IF b > Len(lst) THEN Len(lst) ELSE b
    IN  IF a >= hi THEN <<>> ELSE SubSeq(lst, a + 1, hi)

Min(a, b) == IF a < b THEN a ELSE b

RECURSIVE SeqsUpTo(_, _)
SeqsUpTo(S, n) ==
    IF n = 0 THEN {<<>>}
    ELSE LET shorter == SeqsUpTo(S, n - 1)
         IN  shorter \cup {Append(s, x) : s \in {t \in shorter : Len(t) = n - 1}, x \in S}

----------------------------------------------------------------------------
(* utils/redis.py *)

\* RedisCache.get: the client raises when the server is unreachable; the
\* except branch catches it and returns None.  raised: whether an exception
\* leaves get.
RedisGetUncaught(r, up, key) ==
    IF ~up THEN [raised |-> TRUE, value |-> None]
    ELSE IF key \in DOMAIN r THEN [raised |-> FALSE, value |-> Some(r[key])]
    ELSE [raised |-> FALSE, value |-> None]
RedisGet(r, up, key) ==
    IF ~up THEN [raised |-> FALSE, value |-> None]
    ELSE IF key \in DOMAIN r THEN [raised |-> FALSE, value |-> Some(r[key])]
    ELSE [raised |-> FALSE, value |-> None]

\* RedisCache.set: any exception is caught and the store is left alone.
RedisSet(r, up, key, value) ==
    IF up THEN [k \in (DOMAIN r) \cup {key} |-> IF k = key THEN value ELSE r[k]]
    ELSE r

\* Expiry of a key written with setex.
RedisKeep(r, key) == r
RedisDrop(r, key) == [k \in (DOMAIN r) \ {key} |-> r[k]]

----------------------------------------------------------------------------
(* rag/embedding.py *)

EMBEDDING_MODEL == <<"M">>      \* settings.EMBEDDING_MODEL
fallback_model == <<"F">>       \* the fallback of _load_model
batch_size == 32

Texts == {<<"a">>, <<"b">>}

CharCode(c) ==
    CASE c = "a" -> 1 [] c = "b" -> 2 [] c = "M" -> 3 [] c = "F" -> 4
      [] OTHER -> 5

\* The embedding capability: deterministic for a fixed model, and different
\* for different (model, text).
EmbedDim == 4        \* length of the vectors of the modelled capability
Encode(model, text) ==
    [i \in 1..EmbedDim |->
        IF i = 1 THEN CharCode(model[1])
        ELSE IF i - 1 <= Len(text) THEN CharCode(text[i - 1]) ELSE 0]

\* f"{prefix}:{md5(f'{model}:{text}')}"
EmbedKey(prefix, model, text) == <<prefix, model \o <<":">> \o text>>

\* f"embedding:{md5(content)}" of DocumentProcessor._generate_embeddings
ContentKey(content) == <<"embedding", content>>

LoadOutcomes == {"primary", "fallback", "none"}

\* What loading can do when a call starts: nothing is loaded twice.
LoadEnv(loaded) == IF loaded THEN {"primary"} ELSE LoadOutcomes

\* EmbeddingModel._load_model.  env is what loading does if attempted.
\* Returns the new (model_name, _model_loaded) and whether RuntimeError is raised.
LoadModel(name, loaded, env) ==
    IF loaded THEN [name |-> name, loaded |-> TRUE, raised |-> FALSE]
    ELSE CASE env = "primary"  -> [name |-> name, loaded |-> TRUE, raised |-> FALSE]
           [] env = "fallback" -> [name |-> fallback_model, loaded |-> TRUE, raised |-> FALSE]
           [] OTHER            -> [name |-> name, loaded |-> FALSE, raised |-> TRUE]

\* An exception leaves the call: no value is returned.
ReturnPlaceholder(st, err) == [st EXCEPT !.ok = TRUE, !.result = <<>>]
Raise(st, err) == [st EXCEPT !.ok = FALSE, !.err = err, !.result = None]

\* EmbeddingModel.embed_query as one call.  st carries redis, up, name, loaded.
\* encOk: whether self._model.encode succeeds.
EmbedQueryCall(st, text, env, encOk) ==
    LET cache_key == EmbedKey("embedding_query", st.name, text)
        cached == RedisGet(st.redis, st.up, cache_key)
    IN  IF cached.raised THEN Raise(st, "CacheError")
        ELSE IF Truthy(cached.value)
        THEN [st EXCEPT !.ok = TRUE, !.result = Value(cached.value)]
        ELSE LET ld == LoadModel(st.name, st.loaded, env)
             IN  IF ld.raised THEN Raise(st, "RuntimeError")
                 ELSE IF ~encOk
                 THEN Raise([st EXCEPT !.name = ld.name, !.loaded = TRUE,
                                       !.log = Append(st.log, text),
                                       !.calls = Append(st.calls, <<text>>),
                                       !.failed = TRUE], "ProviderError")
                 ELSE LET embedding_list == Encode(ld.name, text)
                      IN  [st EXCEPT !.name = ld.name, !.loaded = TRUE,
                                     !.log = Append(st.log, text),
                                     !.calls = Append(st.calls, <<text>>),
                                     !.redis = RedisSet(st.redis, st.up, cache_key, embedding_list),
                                     !.ok = TRUE, !.result = embedding_list]

\* Lines 173-181: the scan of one batch against the cache.
RECURSIVE ScanBatch(_, _, _, _, _)
ScanBatch(batch_texts, j, r, up, name) ==
    IF j >= Len(batch_texts)
    THEN [batch_embeddings |-> <<>>, uncached_texts |-> <<>>, uncached_indices |-> <<>>,
          raised |-> FALSE]
    ELSE LET text == batch_texts[j + 1]
             cached == RedisGet(r, up, EmbedKey("embedding_doc", name, text))
             rest == ScanBatch(batch_texts, j + 1, r, up, name)
         IN  IF cached.raised THEN [rest EXCEPT !.raised = TRUE]
             ELSE IF Truthy(cached.value)
             THEN [rest EXCEPT !.batch_embeddings = <<Value(cached.value)>> \o @]
             ELSE [rest EXCEPT !.uncached_texts = <<text>> \o @,
                               !.uncached_indices = <<j>> \o @]

\* Lines 194-200: merge the new embeddings into the batch and cache each.
RECURSIVE MergeNew(_, _, _, _, _, _, _)
MergeNew(batch_embeddings, r, up, name, uncached_indices, uncached_texts, n) ==
    IF n > Len(uncached_indices)
    THEN [batch_embeddings |-> batch_embeddings, redis |-> r]
    ELSE LET embedding_list == Encode(name, uncached_texts[n])
         IN  MergeNew(InsertAt(batch_embeddings, uncached_indices[n], embedding_list),
                      RedisSet(r, up, EmbedKey("embedding_doc", name, uncached_texts[n]),
                               embedding_list),
                      up, name, uncached_indices, uncached_texts, n + 1)

\* EmbeddingModel.embed_documents, from batch start i on.  failAt counts down
\* the encode invocations until the one that raises (0: none raises).
RECURSIVE EmbedBatches(_, _, _, _, _)
EmbedBatches(st, texts, i, env, failAt) ==
    IF i >= Len(texts) THEN [st EXCEPT !.ok = TRUE]
    ELSE LET batch_texts == Slice(texts, i, i + batch_size)
             scan == ScanBatch(batch_texts, 0, st.redis, st.up, st.name)
         IN  IF scan.raised THEN Raise(st, "CacheError")
             ELSE IF scan.uncached_texts = <<>>
             THEN EmbedBatches([st EXCEPT !.result = @ \o scan.batch_embeddings],
                               texts, i + batch_size, env, failAt)
             ELSE LET ld == LoadModel(st.name, st.loaded, env)
                  IN  IF ld.raised THEN Raise(st, "RuntimeError")
                      ELSE IF failAt = 1
                      THEN Raise([st EXCEPT !.name = ld.name, !.loaded = TRUE,
                                            !.log = @ \o scan.uncached_texts,
                                            !.calls = Append(@, scan.uncached_texts),
                                            !.failed = TRUE],
                                 "ProviderError")
                      ELSE LET mg == MergeNew(scan.batch_embeddings, st.redis, st.up, ld.name,
                                              scan.uncached_indices, scan.uncached_texts, 1)
                           IN  EmbedBatches([st EXCEPT !.name = ld.name, !.loaded = TRUE,
                                                       !.log = @ \o scan.uncached_texts,
                                                       !.calls = Append(@, scan.uncached_texts),
                                                       !.redis = mg.redis,
                                                       !.result = @ \o mg.batch_embeddings],
                                            texts, i + batch_size, env,
                                            IF failAt > 1 THEN failAt - 1 ELSE 0)

EmbedDocumentsCall(st, texts, env, failAt) ==
    IF texts = <<>> THEN [st EXCEPT !.ok = TRUE, !.result = <<>>]
    ELSE EmbedBatches([st EXCEPT !.result = <<>>], texts, 0, env, failAt)

\* DocumentProcessor._generate_embeddings over chunk contents, from chunk n on.
RECURSIVE GenerateEmbeddingsCall(_, _, _, _, _, _)
GenerateEmbeddingsCall(st, contents, n, embeddings, env, failAt) ==
    IF n > Len(contents) THEN [st EXCEPT !.ok = TRUE, !.result = embeddings]
    ELSE LET content == contents[n]
             cache_key == ContentKey(content)
             cached == RedisGet(st.redis, st.up, cache_key)
         IN  IF cached.raised THEN Raise(st, "CacheError")
             ELSE IF Truthy(cached.value)
             THEN GenerateEmbeddingsCall(st, contents, n + 1,
                                         Append(embeddings, Value(cached.value)), env, failAt)
             ELSE LET q == EmbedQueryCall(st, content, env, failAt # 1)
                      encoded == Len(q.log) > Len(st.log)
                  IN  IF ~q.ok THEN q
                      ELSE GenerateEmbeddingsCall(
                               [q EXCEPT !.redis = RedisSet(q.redis, q.up, cache_key, q.result)],
                               contents, n + 1, Append(embeddings, q.result), env,
                               IF encoded /\ failAt > 1 THEN failAt - 1 ELSE failAt)

\* The state a call starts from.  log lists the texts handed to encode, calls
\* the same texts invocation by invocation, failed tells that encode raised.
CallState ==
    [redis |-> redis, up |-> redis_up, name |-> model_name, loaded |-> model_loaded,
     log |-> <<>>, calls |-> <<>>, failed |-> FALSE, ok |-> TRUE, err |-> "",
     result |-> None]

----------------------------------------------------------------------------
(* rag/vector_store.py *)

KeyPrefix == 10     \* query_vector[:10] of the cache key

\* Chunk.embedding = Column(Vector(1024)): the dimension the native column
\* enforces.  The model keeps it one TailLen past the cache key prefix.
VectorColumnDim == KeyPrefix + TailLen

\* f"similarity_search:{md5(f'{kb_id}_{top_k}_{str(query_vector[:10])}')}"
SimKeyWithoutKb(query_vector, kb_id, top_k) ==
    <<"similarity_search",
      <<ToString(top_k), "_", ToString(Slice(query_vector, 0, KeyPrefix))>>>>
SimKey(query_vector, kb_id, top_k) ==
    <<"similarity_search",
      <<ToString(kb_id), "_", ToString(top_k), "_",
        ToString(Slice(query_vector, 0, KeyPrefix))>>>>

\* sum(v1 * v2 for v1, v2 in zip(vec1, vec2))
RECURSIVE Dot(_, _, _)
Dot(vec1, vec2, i) ==
    IF i > Min(Len(vec1), Len(vec2)) THEN 0
    ELSE vec1[i] * vec2[i] + Dot(vec1, vec2, i + 1)

\* sum(v ** 2 for v in vec)
RECURSIVE SumSq(_, _)
SumSq(vec, i) == IF i > Len(vec) THEN 0 ELSE vec[i] * vec[i] + SumSq(vec, i + 1)

\* The largest r in lo..hi with r * r <= n.
RECURSIVE ISqrtIn(_, _, _)
ISqrtIn(n, lo, hi) ==
    IF lo >= hi THEN lo
    ELSE LET mid == (lo + hi + 1) \div 2
         IN  IF mid * mid <= n THEN ISqrtIn(n, mid, hi) ELSE ISqrtIn(n, lo, mid - 1)

\* x ** 0.5 of a sum of squares, in hundredths.
Norm(sumsq) == ISqrtIn(sumsq * 10000, 0, 4000)

\* cosine_similarity of similarity_search and of hybrid_search, in hundredths.
CosineByFirstNorm(vec1, vec2) ==
    IF vec1 = <<>> \/ vec2 = <<>> THEN 0
    ELSE LET dot_product == Dot(vec1, vec2, 1)
             norm1 == Norm(SumSq(vec1, 1))
         IN  IF norm1 = 0 THEN 0
             ELSE (dot_product * 1000000) \div (norm1 * norm1)
cosine_similarity(vec1, vec2) ==
    IF vec1 = <<>> \/ vec2 = <<>> THEN 0
    ELSE LET dot_product == Dot(vec1, vec2, 1)
             norm1 == Norm(SumSq(vec1, 1))
             norm2 == Norm(SumSq(vec2, 1))
         IN  IF norm1 = 0 \/ norm2 = 0 THEN 0
             ELSE (dot_product * 1000000) \div (norm1 * norm2)

\* db.query(Chunk).filter(Chunk.kb_id == kb_id).all()
RowsOf(rows, kb_id) == SelectSeq(rows, LAMBDA row : row.kb_id = kb_id)

\* list.sort(key=..., reverse=True) is stable: equal keys keep their order.
\* scored is a sequence of [row, score]; x goes behind every entry whose
\* score is not smaller.
RECURSIVE PlaceBeforeEqual(_, _, _)
PlaceBeforeEqual(sorted, x, i) ==
    IF i > Len(sorted) THEN Append(sorted, x)
    ELSE IF sorted[i].score <= x.score
         THEN SubSeq(sorted, 1, i - 1) \o <<x>> \o SubSeq(sorted, i, Len(sorted))
         ELSE PlaceBeforeEqual(sorted, x, i + 1)
RECURSIVE Place(_, _, _)
Place(sorted, x, i) ==
    IF i > Len(sorted) THEN Append(sorted, x)
    ELSE IF sorted[i].score < x.score
         THEN SubSeq(sorted, 1, i - 1) \o <<x>> \o SubSeq(sorted, i, Len(sorted))
         ELSE Place(sorted, x, i + 1)

RECURSIVE SortReverse(_, _, _)
SortReverse(scored, n, sorted) ==
    IF n > Len(scored) THEN sorted
    ELSE SortReverse(scored, n + 1, Place(sorted, scored[n], 1))

\* The dict built for a chunk, without the temporary similarity or score.
ResultOf(row) ==
    [id |-> row.id, kb_id |-> row.kb_id, document_id |-> row.document_id,
     content |-> row.content, metadata |-> row.metadata, embedding |-> row.embedding]

\* results[:top_k] for top_k >= 0, the scores popped.
TopResults(sorted, top_k) ==
    [i \in 1..Min(top_k, Len(sorted)) |-> ResultOf(sorted[i].row)]

\* Lines 197-239: the scan, the sort and the cut of similarity_search.
RankBySimilarity(rows, query_vector, kb_id, top_k) ==
    LET found == RowsOf(rows, kb_id)
        results == [i \in 1..Len(found) |->
                       [row |-> found[i],
                        score |-> cosine_similarity(query_vector, found[i].embedding)]]
    IN  TopResults(SortReverse(results, 1, <<>>), top_k)

\* VectorStore.similarity_search as one call.  st carries redis, up and db:
\* with the database down the query of line 201 raises, and nothing catches it.
SimilaritySearchCall(st, rows, query_vector, kb_id, top_k) ==
    LET cache_key == SimKey(query_vector, kb_id, top_k)
        cached_result == RedisGet(st.redis, st.up, cache_key)
    IN  IF cached_result.raised THEN Raise(st, "CacheError")
        ELSE IF Truthy(cached_result.value)
        THEN [st EXCEPT !.ok = TRUE, !.hit = TRUE, !.result = Value(cached_result.value)]
        ELSE IF ~st.db THEN Raise(st, "StorageError")
        ELSE LET top_results == RankBySimilarity(rows, query_vector, kb_id, top_k)
             IN  [st EXCEPT !.ok = TRUE, !.hit = FALSE, !.result = top_results,
                            !.redis = RedisSet(st.redis, st.up, cache_key, top_results)]

\* str.lower()
LowerChar(c) ==
    CASE c = "D" -> "d" [] c = "B" -> "b" [] c = "X" -> "x" [] OTHER -> c
Lower(str) == [i \in 1..Len(str) |-> LowerChar(str[i])]

\* needle in hay
Contains(hay, needle) ==
    \E i \in 0..(Len(hay) - Len(needle)) : SubSeq(hay, i + 1, i + Len(needle)) = needle

\* Lines 280-287: the score of one chunk, in thousandths.
TotalScoreCaseSensitive(query_vector, keyword, row) ==
    LET vector_similarity == cosine_similarity(query_vector, row.embedding)
        keyword_score == IF Contains(row.content, keyword) THEN 10 ELSE 0
    IN  vector_similarity * 7 + keyword_score * 30
TotalScore(query_vector, keyword, row) ==
    LET vector_similarity == cosine_similarity(query_vector, row.embedding)
        keyword_score == IF Contains(Lower(row.content), Lower(keyword)) THEN 10 ELSE 0
    IN  vector_similarity * 7 + keyword_score * 30

\* VectorStore.hybrid_search as one call.
HybridSearchCall(st, rows, query_vector, keyword, kb_id, top_k) ==
    LET all_chunks == RowsOf(rows, kb_id)
        results == [i \in 1..Len(all_chunks) |->
                       [row |-> all_chunks[i],
                        score |-> TotalScore(query_vector, keyword, all_chunks[i])]]
    IN  IF ~st.db THEN Raise(st, "StorageError")
        ELSE [st EXCEPT !.ok = TRUE, !.hit = FALSE,
                        !.result = TopResults(SortReverse(results, 1, <<>>), top_k)]

\* The rows add_chunks adds to the session: one per pair of zip(chunks, embeddings).
NewRows(rows, kb_id, chunk_list, embeddings, document_id) ==
    [i \in 1..Min(Len(chunk_list), Len(embeddings)) |->
        [id |-> Len(rows) + i, kb_id |-> kb_id, document_id |-> document_id,
         content |-> chunk_list[i].chunk_content, metadata |-> chunk_list[i].metadata,
         embedding |-> embeddings[i]]]

\* db.commit() of add_chunks.  PostgreSQL rejects the transaction when a
\* vector does not fit Vector(1024) or kb_id has no knowledge base; SQLite
\* stores a JSON column and does not enforce foreign keys.
CommitRejects(pgvector, kbs, new) ==
    /\ pgvector
    /\ new # <<>>
    /\ \/ \E i \in 1..Len(new) : Len(new[i].embedding) # VectorColumnDim
       \/ \E i \in 1..Len(new) : new[i].kb_id \notin kbs

\* VectorStore.add_chunks as one call: the rows afterwards and whether it raised.
AddChunksCallReplacing(rows, pgvector, kbs, kb_id, chunk_list, embeddings, document_id) ==
    LET new == NewRows(rows, kb_id, chunk_list, embeddings, document_id)
    IN  IF CommitRejects(pgvector, kbs, new)
        THEN [rows |-> rows, ok |-> FALSE, err |-> "StorageError"]
        ELSE [rows |-> SelectSeq(rows, LAMBDA row : row.kb_id # kb_id) \o new,
              ok |-> TRUE, err |-> ""]
AddChunksCall(rows, pgvector, kbs, kb_id, chunk_list, embeddings, document_id) ==
    LET new == NewRows(rows, kb_id, chunk_list, embeddings, document_id)
    IN  IF CommitRejects(pgvector, kbs, new)
        THEN [rows |-> rows, ok |-> FALSE, err |-> "StorageError"]
        ELSE [rows |-> rows \o new, ok |-> TRUE, err |-> ""]

\* db.add(chunk_obj) on a session made with autocommit=False: the object
\* waits in the session, and the table is untouched until db.commit().
SessionAddAutocommit(rows, session, obj) ==
    [rows |-> Append(rows, [obj EXCEPT !.id = Len(rows) + 1]), session |-> session]
SessionAdd(rows, session, obj) ==
    [rows |-> rows, session |-> Append(session, obj)]

\* db.commit(): the pending objects become rows, in one transaction, with
\* the next primary keys; a rejected or unreachable commit stores nothing.
SessionCommit(rows, session, pgvector, kbs, db) ==
    LET new == [i \in 1..Len(session) |-> [session[i] EXCEPT !.id = Len(rows) + i]]
    IN  IF ~db \/ CommitRejects(pgvector, kbs, new)
        THEN [rows |-> rows, ok |-> FALSE, err |-> "StorageError"]
        ELSE [rows |-> rows \o new, ok |-> TRUE, err |-> ""]

\* VectorStore.create_knowledge_base: the id the new row gets (rows are
\* never deleted, so the primary key counts on).
NewKbId(kbs) == Cardinality(kbs) + 1

\* VectorStore.add_document: the row it commits.  PostgreSQL rejects a kb_id
\* without a knowledge base; SQLite does not enforce the foreign key.
AddDocumentCall(docs, pgvector, kbs, kb_id, file_path, file_type, content) ==
    IF pgvector /\ kb_id \notin kbs
    THEN [docs |-> docs, ok |-> FALSE, err |-> "StorageError", result |-> None]
    ELSE [docs |-> Append(docs, [id |-> Len(docs) + 1, kb_id |-> kb_id,
                                 file_path |-> file_path, file_type |-> file_type,
                                 content |-> content]),
          ok |-> TRUE, err |-> "", result |-> Some(Len(docs) + 1)]

\* VectorStore.get_knowledge_base_by_id: query(...).first() is the row, or
\* None when there is none; no exception is raised for a missing row.
GetKnowledgeBaseByIdCall(kbs, kb_id, db) ==
    IF ~db THEN [ok |-> FALSE, err |-> "StorageError", result |-> None]
    ELSE IF kb_id \in kbs THEN [ok |-> TRUE, err |-> "", result |-> Some([id |-> kb_id])]
    ELSE [ok |-> TRUE, err |-> "", result |-> None]

\* VectorStore.get_chunks_by_kb_id: the first limit rows of the knowledge base.
GetChunksByKbIdCall(rows, kb_id, limit) == Slice(RowsOf(rows, kb_id), 0, limit)

\* routes/qna.py get_knowledge_base_info: HTTP 404 when the lookup returns
\* no row, 500 when anything else is raised, the counts otherwise.
GetKnowledgeBaseInfoCall(kbs, rows, kb_id, db) ==
    LET kb == GetKnowledgeBaseByIdCall(kbs, kb_id, db)
        found == GetChunksByKbIdCall(rows, kb_id, 1000)
    IN  IF ~kb.ok THEN [ok |-> FALSE, err |-> "HTTP500", result |-> None]
        ELSE IF kb.result = None THEN [ok |-> FALSE, err |-> "HTTP404", result |-> None]
        ELSE [ok |-> TRUE, err |-> "",
              result |-> Some([id |-> kb_id, chunk_count |-> Len(found),
                               document_count |->
                                   Cardinality({found[i].document_id : i \in 1..Len(found)}
                                               \ {0})])]

----------------------------------------------------------------------------
(* rag/text_splitter.py *)

\* The separators TextSplitter hands to RecursiveCharacterTextSplitter, in
\* the order of the list: the empty separator is the fourth.
SeparatorsWithoutCut == <<<<"\n", "\n">>, <<"\n">>, <<" ">>>>
Separators ==
    <<<<"\n", "\n">>, <<"\n">>, <<" ">>, <<>>, <<".">>, <<";">>, <<",">>, <<" ">>>>

\* The constructor of the splitter refuses an overlap larger than the chunk.
SplitterAccepts(chunk_size, chunk_overlap) == chunk_overlap <= chunk_size

IsSpace(c) == c \in {" ", "\n"}

\* str.strip()
RECURSIVE Strip(_)
Strip(text) ==
    IF text = <<>> THEN <<>>
    ELSE IF IsSpace(text[1]) THEN Strip(Tail(text))
    ELSE IF IsSpace(text[Len(text)]) THEN Strip(SubSeq(text, 1, Len(text) - 1))
    ELSE text

\* The pieces of text between the matches of a non-empty separator, matched
\* from the left without overlap; i is the scan position, cur the piece so far.
RECURSIVE SplitOn(_, _, _, _)
SplitOn(text, separator, i, cur) ==
    IF i >= Len(text) THEN <<cur>>
    ELSE IF /\ i + Len(separator) <= Len(text)
            /\ SubSeq(text, i + 1, i + Len(separator)) = separator
         THEN <<cur>> \o SplitOn(text, separator, i + Len(separator), <<>>)
         ELSE SplitOn(text, separator, i + 1, Append(cur, text[i + 1]))

\* The split with the separator kept in front of the piece that follows it;
\* the empty separator cuts between all characters.  Empty pieces are dropped.
SplitKeepingSeparator(text, separator) ==
    LET pieces == SplitOn(text, separator, 0, <<>>)
        splits == IF separator = <<>> THEN [k \in 1..Len(text) |-> <<text[k]>>]
                  ELSE [k \in 1..Len(pieces) |->
                           IF k = 1 THEN pieces[1] ELSE separator \o pieces[k]]
    IN  SelectSeq(splits, LAMBDA piece : piece # <<>>)

\* The pieces of a chunk joined and stripped: None when nothing is left.
RECURSIVE Concat(_, _)
Concat(pieces, n) == IF n > Len(pieces) THEN <<>> ELSE pieces[n] \o Concat(pieces, n + 1)

JoinDocsKeepEmpty(current_doc) == Some(Strip(Concat(current_doc, 1)))
JoinDocs(current_doc) ==
    LET text == Strip(Concat(current_doc, 1))
    IN  IF text = <<>> THEN None ELSE Some(text)

\* After a chunk is emitted its pieces are dropped from the front until what
\* stays is within the overlap and leaves room for the next piece.
RECURSIVE DropFront(_, _, _, _, _)
DropFront(current_doc, total, len, chunk_size, chunk_overlap) ==
    IF total > chunk_overlap \/ (total + len > chunk_size /\ total > 0)
    THEN DropFront(Tail(current_doc), total - Len(current_doc[1]), len, chunk_size,
                   chunk_overlap)
    ELSE [current_doc |-> current_doc, total |-> total]

\* The small pieces merged into chunks of at most chunk_size, from piece n on.
RECURSIVE MergeSplits(_, _, _, _, _, _, _)
MergeSplits(splits, n, docs, current_doc, total, chunk_size, chunk_overlap) ==
    IF n > Len(splits) THEN docs \o JoinDocs(current_doc)
    ELSE LET d == splits[n]
             full == total + Len(d) > chunk_size
             kept == IF full /\ current_doc # <<>>
                     THEN DropFront(current_doc, total, Len(d), chunk_size, chunk_overlap)
                     ELSE [current_doc |-> current_doc, total |-> total]
         IN  MergeSplits(splits, n + 1,
                         IF full /\ current_doc # <<>> THEN docs \o JoinDocs(current_doc)
                                                       ELSE docs,
                         Append(kept.current_doc, d), kept.total + Len(d),
                         chunk_size, chunk_overlap)

\* The first separator of the list that is empty or occurs in the text, and
\* the separators behind it; the last one when none occurs.
RECURSIVE PickSeparator(_, _, _)
PickSeparator(text, separators, i) ==
    IF i > Len(separators)
    THEN [separator |-> separators[Len(separators)], new_separators |-> <<>>]
    ELSE IF separators[i] = <<>> THEN [separator |-> <<>>, new_separators |-> <<>>]
    ELSE IF Contains(text, separators[i])
         THEN [separator |-> separators[i],
               new_separators |-> SubSeq(separators, i + 1, Len(separators))]
         ELSE PickSeparator(text, separators, i + 1)

\* The recursive split: pieces shorter than chunk_size are merged, a longer
\* piece is split on the separators that remain, or kept when none remains.
RECURSIVE SplitTextWith(_, _, _, _)
RECURSIVE SplitLoop(_, _, _, _, _, _, _)
SplitLoop(splits, n, good_splits, final_chunks, new_separators, chunk_size, chunk_overlap) ==
    LET merged == IF good_splits = <<>> THEN <<>>
                  ELSE MergeSplits(good_splits, 1, <<>>, <<>>, 0, chunk_size, chunk_overlap)
    IN  IF n > Len(splits) THEN final_chunks \o merged
        ELSE IF Len(splits[n]) < chunk_size
        THEN SplitLoop(splits, n + 1, Append(good_splits, splits[n]), final_chunks,
                       new_separators, chunk_size, chunk_overlap)
        ELSE SplitLoop(splits, n + 1, <<>>,
                       final_chunks \o merged \o
                           (IF new_separators = <<>> THEN <<splits[n]>>
                            ELSE SplitTextWith(splits[n], new_separators, chunk_size,
                                               chunk_overlap)),
                       new_separators, chunk_size, chunk_overlap)

SplitTextWith(text, separators, chunk_size, chunk_overlap) ==
    LET pick == PickSeparator(text, separators, 1)
    IN  SplitLoop(SplitKeepingSeparator(text, pick.separator), 1, <<>>, <<>>,
                  pick.new_separators, chunk_size, chunk_overlap)

\* TextSplitter.split_text
SplitTextCall(text, chunk_size, chunk_overlap) ==
    SplitTextWith(text, Separators, chunk_size, chunk_overlap)

\* TextSplitter.split_documents: every chunk of every document, numbered
\* from 1 within its document.
RECURSIVE SplitDocumentsCall(_, _, _, _)
SplitDocumentsCall(docs, n, chunk_size, chunk_overlap) ==
    IF n > Len(docs) THEN <<>>
    ELSE LET found == SplitTextCall(docs[n].content, chunk_size, chunk_overlap)
         IN  [i \in 1..Len(found) |->
                 [content |-> docs[n].content, chunk_id |-> i, chunk_content |-> found[i],
                  original_content |-> docs[n].content]]
             \o SplitDocumentsCall(docs, n + 1, chunk_size, chunk_overlap)

\* re.split(r'\n\s*\n', text): a match starts at a newline and runs, over
\* white space only, to the last newline it can reach; the pieces between
\* the matches are returned, empty ones included.  i is the scan position.
Max(S) == CHOOSE x \in S : \A y \in S : y <= x

BlankLineEnd(text, i) ==
    LET ends == {k \in (i + 2)..Len(text) :
                    text[k] = "\n" /\ \A m \in (i + 1)..k : IsSpace(text[m])}
    IN  IF ends = {} THEN 0 ELSE Max(ends)

RECURSIVE SplitParagraphs(_, _, _)
SplitParagraphs(text, i, cur) ==
    IF i >= Len(text) THEN <<cur>>
    ELSE IF text[i + 1] = "\n" /\ BlankLineEnd(text, i) # 0
         THEN <<cur>> \o SplitParagraphs(text, BlankLineEnd(text, i), <<>>)
         ELSE SplitParagraphs(text, i + 1, Append(cur, text[i + 1]))

\* TextSplitter.split_long_text.  depth counts the frames of the recursion
\* of line 57: past MaxDepth the interpreter raises RecursionError, which
\* nothing catches.  From paragraph n on, with the chunks and the
\* current_chunk built so far.
MaxDepth == 3       \* frames the interpreter grants the recursion

RECURSIVE SplitLongTextCall(_, _, _)
RECURSIVE SplitLongLoop(_, _, _, _, _, _)
SplitLongLoop(paragraphs, n, chunk_list, current_chunk, max_length, depth) ==
    IF n > Len(paragraphs)
    THEN [ok |-> TRUE, err |-> "",
          result |-> IF current_chunk # <<>> THEN Append(chunk_list, Strip(current_chunk))
                                             ELSE chunk_list]
    ELSE LET para == Strip(paragraphs[n])
             flushed == IF current_chunk # <<>>
                        THEN Append(chunk_list, Strip(current_chunk))
                        ELSE chunk_list
             sub == SplitLongTextCall(para, max_length, depth + 1)
         IN  IF para = <<>>
             THEN SplitLongLoop(paragraphs, n + 1, chunk_list, current_chunk, max_length,
                                depth)
             ELSE IF Len(para) > max_length
             THEN IF ~sub.ok THEN sub
                  ELSE SplitLongLoop(paragraphs, n + 1, flushed \o sub.result, <<>>,
                                     max_length, depth)
             ELSE IF Len(current_chunk) + Len(para) + 2 > max_length
             THEN SplitLongLoop(paragraphs, n + 1, Append(chunk_list, Strip(current_chunk)),
                                para, max_length, depth)
             ELSE SplitLongLoop(paragraphs, n + 1, chunk_list,
                                IF current_chunk # <<>>
                                THEN current_chunk \o <<"\n", "\n">> \o para
                                ELSE para,
                                max_length, depth)

SplitLongTextCall(text, max_length, depth) ==
    IF depth > MaxDepth THEN [ok |-> FALSE, err |-> "RecursionError", result |-> <<>>]
    ELSE SplitLongLoop(SplitParagraphs(Strip(text), 0, <<>>), 1, <<>>, <<>>, max_length,
                       depth)

----------------------------------------------------------------------------
(* main.py *)

\* "\n\n".join(context_parts), strings being sequences of tokens.
RECURSIVE JoinParts(_, _)
JoinParts(parts, n) ==
    IF n > Len(parts) THEN <<>>
    ELSE IF n = Len(parts) THEN parts[n]
    ELSE parts[n] \o <<"\n\n">> \o JoinParts(parts, n + 1)

\* f"文档片段{i+1}:\n{doc['content']}" for the i-th document, i counting from 0.
ContextPart(i, doc) == <<"fragment", ToString(i + 1), ":\n">> \o doc.content

\* The string returned when anything was raised.
NoContext == <<"no relevant document context">>

\* retrieve_relevant_content: embed the query, search, join the contents;
\* except Exception returns the fixed no-context string.  est and sst are the
\* states the two calls start from.
RetrieveRelevantContentCall(est, sst, rows, kb_id, query, scene_type, env, encOk) ==
    LET q == EmbedQueryCall(est, query, env, encOk)
        top_k == IF scene_type = "it" THEN 5 ELSE 3
        found == SimilaritySearchCall([sst EXCEPT !.redis = q.redis], rows,
                                      IF q.ok THEN q.result ELSE <<>>, kb_id, top_k)
    IN  IF ~q.ok
        THEN [redis |-> q.redis, name |-> q.name, loaded |-> q.loaded, raised |-> q.err,
              docs |-> <<>>, result |-> NoContext]
        ELSE IF ~found.ok
        THEN [redis |-> found.redis, name |-> q.name, loaded |-> q.loaded,
              raised |-> found.err, docs |-> <<>>, result |-> NoContext]
        ELSE [redis |-> found.redis, name |-> q.name, loaded |-> q.loaded, raised |-> "",
              docs |-> found.result,
              result |-> JoinParts([i \in 1..Len(found.result) |->
                                       ContextPart(i - 1, found.result[i])], 1)]

----------------------------------------------------------------------------
(* services/document_processor.py *)

SupportedTypes == {<<"pdf">>, <<"docx">>, <<"txt">>}

\* DocumentProcessor._read_document.  A file is its path, its type and what
\* reading it yields: None when the reader raises.
ReadDocument(file) ==
    IF file.file_type \notin SupportedTypes \/ file.content = None
    THEN [ok |-> FALSE, err |-> "ValueError", content |-> <<>>]
    ELSE [ok |-> TRUE, err |-> "", content |-> Value(file.content)]

\* RecursiveCharacterTextSplitter(chunk_size=1000, chunk_overlap=200) with
\* the separators the library defaults to.
ProcessorChunkSize == 1000
ProcessorChunkOverlap == 200
ProcessorSeparators == <<<<"\n", "\n">>, <<"\n">>, <<" ">>, <<>>>>

\* DocumentProcessor._split_document: the chunk dicts of one document.
SplitDocument(content, file_path) ==
    LET split_docs == SplitTextWith(content, ProcessorSeparators, ProcessorChunkSize,
                                    ProcessorChunkOverlap)
    IN  [n \in 1..Len(split_docs) |->
            [chunk_content |-> split_docs[n],
             metadata |-> [source |-> file_path, chunk_index |-> n - 1,
                           total_chunks |-> Len(split_docs),
                           chunk_size |-> Len(split_docs[n])]]]

\* The dict process_document returns: lines 67-72 and 75-79.
ResultSuccess(doc_id, chunk_count) ==
    [success |-> TRUE, doc_id |-> doc_id, chunk_count |-> chunk_count, error |-> ""]
ResultFailure(error) ==
    [success |-> FALSE, doc_id |-> 0, chunk_count |-> 0, error |-> error]

\* Lines 50-56 of process_document: read the file and commit its Document
\* row.  db: whether the database answers.
ReadAndAddDocument(docs, pgvector, kbs, db, file, kb_id) ==
    LET read == ReadDocument(file)
        added == AddDocumentCall(docs, pgvector, kbs, kb_id, file.file_path,
                                 file.file_type, read.content)
    IN  IF ~read.ok \/ read.content = <<>>
        THEN [docs |-> docs, ok |-> FALSE, err |-> "ValueError", doc_id |-> 0,
              content |-> <<>>]
        ELSE IF ~db \/ ~added.ok
        THEN [docs |-> docs, ok |-> FALSE, err |-> "StorageError", doc_id |-> 0,
              content |-> <<>>]
        ELSE [docs |-> added.docs, ok |-> TRUE, err |-> "", doc_id |-> Value(added.result),
              content |-> read.content]

\* Lines 58-62: split the content and embed every chunk.
SplitAndEmbed(st, content, file_path, env, failAt) ==
    LET chunk_list == SplitDocument(content, file_path)
        contents == [n \in 1..Len(chunk_list) |-> chunk_list[n].chunk_content]
    IN  [chunks |-> chunk_list,
         out |-> GenerateEmbeddingsCall(st, contents, 1, <<>>, env, failAt)]

\* Line 65: add_chunks with the database up or down.
StoreChunksUnrolled(rows, pgvector, kbs, db, kb_id, chunk_list, embeddings, doc_id) ==
    IF ~db THEN [rows |-> rows \o NewRows(rows, kb_id, chunk_list, embeddings, doc_id),
                 ok |-> FALSE, err |-> "StorageError"]
    ELSE AddChunksCall(rows, pgvector, kbs, kb_id, chunk_list, embeddings, doc_id)
StoreChunks(rows, pgvector, kbs, db, kb_id, chunk_list, embeddings, doc_id) ==
    IF ~db THEN [rows |-> rows, ok |-> FALSE, err |-> "StorageError"]
    ELSE AddChunksCall(rows, pgvector, kbs, kb_id, chunk_list, embeddings, doc_id)

\* Lines 181-191 of batch_process_documents: the summary of the results.
RECURSIVE SumChunkCounts(_, _)
SumChunkCounts(results, n) ==
    IF n > Len(results) THEN 0
    ELSE (IF results[n].success THEN results[n].chunk_count ELSE 0)
         + SumChunkCounts(results, n + 1)

BatchSummary(results) ==
    LET success_count == Cardinality({n \in 1..Len(results) : results[n].success})
        failed_count == Len(results) - success_count
    IN  [success |-> failed_count = 0, total_documents |-> Len(results),
         success_count |-> success_count, failed_count |-> failed_count,
         total_chunks |-> SumChunkCounts(results, 1), results |-> results]

----------------------------------------------------------------------------
(* routes/upload.py *)

\* No call has completed yet.
NoCall == [op |-> "none"]

\* f"task:{task_id}"
TaskKey(task_id) == <<"task", ToString(task_id)>>

\* The dict written under the task key.
StatusRecord(status, progress) == [status |-> status, progress |-> progress]

TerminalStatuses == {"completed", "failed"}

\* The locals of a background job.  kind tells which function runs:
\* "single" process_document_task, "batch_task" process_documents_batch_task,
\* "batch" batch_process_documents on its own.  files pairs file_paths with
\* file_types, i is the index of the file in hand, phase tells the loop of
\* lines 316-330 from the call of line 333, writes lists the statuses handed
\* to redis_cache.set.
IdleJob ==
    [kind |-> "none", task_id |-> 0, files |-> <<>>, kb_id |-> 0, i |-> 0,
     phase |-> "loop", results |-> <<>>, doc_id |-> 0, content |-> <<>>,
     chunks |-> <<>>, embeddings |-> <<>>, writes |-> <<>>]

\* One redis_cache.set of a job: the store afterwards and the job's log.
WriteStatus(l, r, up, status, progress) ==
    [redis |-> RedisSet(r, up, TaskKey(l.task_id), StatusRecord(status, progress)),
     local |-> [l EXCEPT !.writes = Append(@, status)]]

\* batch_process_documents, lines 175-191, once process_document has
\* returned result: the next file, or the summary.
AfterBatchDocumentStopping(l, r, up, result) ==
    LET results == Append(l.results, result)
    IN  IF l.i + 1 < Len(l.files) /\ result.success
        THEN [pc |-> "read", redis |-> r, finished |-> FALSE, call |-> NoCall,
              local |-> [l EXCEPT !.results = results, !.i = l.i + 1]]
        ELSE [pc |-> "done", redis |-> r, finished |-> TRUE,
              call |-> [op |-> "batch_process_documents", kb_id |-> l.kb_id,
                        files |-> l.files, result |-> BatchSummary(results)],
              local |-> [l EXCEPT !.results = results]]
AfterBatchDocument(l, r, up, result) ==
    LET results == Append(l.results, result)
    IN  IF l.i + 1 < Len(l.files)
        THEN [pc |-> "read", redis |-> r, finished |-> FALSE, call |-> NoCall,
              local |-> [l EXCEPT !.results = results, !.i = l.i + 1]]
        ELSE [pc |-> "done", redis |-> r, finished |-> TRUE,
              call |-> [op |-> "batch_process_documents", kb_id |-> l.kb_id,
                        files |-> l.files, result |-> BatchSummary(results)],
              local |-> [l EXCEPT !.results = results]]

\* process_document_task, lines 275-288: the terminal status.
AfterTaskDocumentOptimistic(l, r, up, result) ==
    LET w == WriteStatus(l, r, up, "completed", 100)
    IN  [pc |-> "done", redis |-> w.redis, finished |-> TRUE,
         call |-> [op |-> "process_document_task", task_id |-> l.task_id,
                   kb_id |-> l.kb_id, files |-> l.files, result |-> result,
                   writes |-> w.local.writes],
         local |-> [w.local EXCEPT !.results = <<result>>]]
AfterTaskDocument(l, r, up, result) ==
    LET w == IF result.success THEN WriteStatus(l, r, up, "completed", 100)
                               ELSE WriteStatus(l, r, up, "failed", 0)
    IN  [pc |-> "done", redis |-> w.redis, finished |-> TRUE,
         call |-> [op |-> "process_document_task", task_id |-> l.task_id,
                   kb_id |-> l.kb_id, files |-> l.files, result |-> result,
                   writes |-> w.local.writes],
         local |-> [w.local EXCEPT !.results = <<result>>]]

\* process_documents_batch_task, lines 316-348.  In the loop every file is
\* processed and the progress written; then batch_process_documents runs
\* over the same files, and the final write reads final_result["message"]:
\* a key the summary does not have raises KeyError, which line 342 catches.
AfterBatchTaskDocument(l, r, up, result) ==
    LET total_files == Len(l.files)
        progress == ((l.i + 1) * 100) \div total_files
        w == WriteStatus(l, r, up, "processing", progress)
        results == Append(l.results, result)
        final_result == BatchSummary(results)
        end == IF "message" \in DOMAIN final_result
               THEN WriteStatus(l, r, up, "completed", 100)
               ELSE WriteStatus(l, r, up, "failed", 0)
    IN  IF l.phase = "loop"
        THEN IF l.i + 1 < total_files
             THEN [pc |-> "read", redis |-> w.redis, finished |-> FALSE, call |-> NoCall,
                   local |-> [w.local EXCEPT !.i = l.i + 1]]
             ELSE [pc |-> "read", redis |-> w.redis, finished |-> FALSE, call |-> NoCall,
                   local |-> [w.local EXCEPT !.i = 0, !.phase = "final"]]
        ELSE IF l.i + 1 < total_files
             THEN [pc |-> "read", redis |-> r, finished |-> FALSE, call |-> NoCall,
                   local |-> [l EXCEPT !.results = results, !.i = l.i + 1]]
             ELSE [pc |-> "done", redis |-> end.redis, finished |-> TRUE,
                   call |-> [op |-> "process_documents_batch_task", task_id |-> l.task_id,
                             kb_id |-> l.kb_id, files |-> l.files, result |-> final_result,
                             writes |-> end.local.writes],
                   local |-> [end.local EXCEPT !.results = results]]

\* process_document returns result to the function that called it.
Resume(l, r, up, result) ==
    CASE l.kind = "single" -> AfterTaskDocument(l, r, up, result)
      [] l.kind = "batch_task" -> AfterBatchTaskDocument(l, r, up, result)
      [] OTHER -> AfterBatchDocument(l, r, up, result)

\* settings.ALLOWED_EXTENSIONS, which upload_document checks, and
\* SUPPORTED_EXTENSIONS, which validate_file checks for a batch.
AllowedTypes == {<<"pdf">>, <<"docx">>, <<"txt">>, <<"pptx">>}
BatchTypes == {<<"pdf">>, <<"docx">>, <<"txt">>}

\* str(uuid.uuid4()): an id no other task has.  Every job is one task.
NewTaskId(t) == t

\* What upload_document and upload_documents_batch answer.
UploadResponse(op, ok, err, task_id, kb_id) ==
    [op |-> op, ok |-> ok, err |-> err, task_id |-> task_id, kb_id |-> kb_id]

\* get_task_status: HTTP 404 when the key holds nothing.
GetTaskStatusCall(r, up, task_id) ==
    LET task_status == RedisGet(r, up, TaskKey(task_id))
    IN  IF task_status.value = None
        THEN [ok |-> FALSE, err |-> "HTTP404", result |-> None]
        ELSE [ok |-> TRUE, err |-> "", result |-> task_status.value]

----------------------------------------------------------------------------
(* Inputs *)

\* The texts of the batch calls: one of them is longer than one character.
DocTexts == Texts \cup {<<"a", "b">>}

ShortLists == SeqsUpTo(DocTexts, MaxTexts)

\* A list longer than one batch: the pattern p repeated up to length n.
Cycle(p, n) == [i \in 1..n |-> p[((i - 1) % Len(p)) + 1]]

LongLists == {Cycle(p, batch_size + k) : p \in ShortLists \ {<<>>}, k \in 1..MaxOver}

\* A full batch of one text, and another text behind it.
TailLists == {Append(Cycle(<<t>>, batch_size), u) : t \in Texts, u \in Texts}

DocInputs == ShortLists \cup LongLists \cup TailLists

ContentLists == SeqsUpTo(Texts, MaxContents)

\* A vector of the column's dimension: two leading components, zeros up to
\* the end of the key prefix, and a tail behind the prefix.
Vec(h1, h2, t) ==
    [i \in 1..VectorColumnDim |->
        IF i = 1 THEN h1 ELSE IF i = 2 THEN h2 ELSE IF i > KeyPrefix THEN t ELSE 0]

WrongDimVector == <<10, 0>>

Queries == {Vec(10, 0, 0), Vec(10, 0, 10), Vec(0, 10, 0)}

Keywords == {<<"D", "B">>, <<"x">>}

KbIds == 1..MaxKb
TopKs == 1..MaxTopK

Meta(n) == [chunk_index |-> n]

\* The chunk dicts and vectors handed to add_chunks.
InChunk(content, n) == [chunk_content |-> content, metadata |-> Meta(n)]

ChunkKinds ==
    {[chunk |-> InChunk(<<"D", "b">>, 0), embedding |-> Vec(10, 0, 0)],
     [chunk |-> InChunk(<<"x">>, 0), embedding |-> Vec(0, 10, 0)],
     [chunk |-> InChunk(<<"x", "d", "b">>, 0), embedding |-> Vec(7, 7, 0)],
     [chunk |-> InChunk(<<"y">>, 0), embedding |-> Vec(0, 0, 10)],
     [chunk |-> InChunk(<<"D", "b">>, 0), embedding |-> Vec(0, 0, 0)]}

\* The chunk tables a store can hold: whatever add_chunks calls have appended.
RowOf(kind, kb_id, n) ==
    [id |-> n, kb_id |-> kb_id, document_id |-> 0, content |-> kind.chunk.chunk_content,
     metadata |-> kind.chunk.metadata, embedding |-> kind.embedding]

Tables ==
    {[n \in 1..Len(ks) |-> RowOf(ks[n][1], ks[n][2], n)] :
        ks \in SeqsUpTo(ChunkKinds \X {1} \cup {<<CHOOSE k \in ChunkKinds : TRUE, 2>>}, MaxRows)}

\* The batches of the store's add_chunks calls.
Batches ==
    {[chunks |-> <<InChunk(<<"D", "b">>, 0)>>, embeddings |-> <<Vec(10, 0, 0)>>],
     [chunks |-> <<InChunk(<<"y">>, 0)>>, embeddings |-> <<Vec(0, 0, 10)>>],
     [chunks |-> <<InChunk(<<"x">>, 0), InChunk(<<"x">>, 1)>>,
      embeddings |-> <<Vec(0, 10, 0), WrongDimVector>>]}

----------------------------------------------------------------------------
(* Actions *)

EmbedUnchanged == UNCHANGED <<model_name, model_loaded>>
StoreUnchanged == UNCHANGED <<use_pgvector, db_up, knowledge_bases, documents, chunks>>
ThreadsUnchanged == UNCHANGED <<pc, local, invocations>>

\* What an embedding call leaves behind.
Finish(op, args, out) ==
    /\ redis' = out.redis
    /\ model_name' = out.name
    /\ model_loaded' = out.loaded
    /\ last' = [op |-> op, args |-> args, ok |-> out.ok, err |-> out.err,
                result |-> out.result, log |-> out.log, calls |-> out.calls,
                failed |-> out.failed, up |-> redis_up, before |-> redis,
                name |-> model_name]
    /\ UNCHANGED redis_up
    /\ StoreUnchanged
    /\ ThreadsUnchanged

EmbedQuery(text, env, encOk) ==
    Finish("embed_query", <<text>>, EmbedQueryCall(CallState, text, env, encOk))

EmbedDocuments(texts, env, failAt) ==
    Finish("embed_documents", texts, EmbedDocumentsCall(CallState, texts, env, failAt))

GenerateEmbeddings(contents, env, failAt) ==
    Finish("_generate_embeddings", contents,
           GenerateEmbeddingsCall(CallState, contents, 1, <<>>, env, failAt))

\* The TTL of a key runs out.
Expire(key) ==
    /\ key \in DOMAIN redis
    /\ redis' = RedisDrop(redis, key)
    /\ UNCHANGED <<redis_up, last>>
    /\ EmbedUnchanged /\ StoreUnchanged /\ ThreadsUnchanged

\* A quiet hour: every TTL has run out.
ExpireAll ==
    /\ redis # <<>>
    /\ redis' = <<>>
    /\ UNCHANGED <<redis_up, last>>
    /\ EmbedUnchanged /\ StoreUnchanged /\ ThreadsUnchanged

\* The Redis server becomes unreachable, or reachable again.
RedisFail ==
    /\ redis_up
    /\ redis_up' = FALSE
    /\ UNCHANGED <<redis, last>>
    /\ EmbedUnchanged /\ StoreUnchanged /\ ThreadsUnchanged

RedisRecover ==
    /\ ~redis_up
    /\ redis_up' = TRUE
    /\ UNCHANGED <<redis, last>>
    /\ EmbedUnchanged /\ StoreUnchanged /\ ThreadsUnchanged

AddChunks(kb_id, batch) ==
    LET out == IF db_up
               THEN AddChunksCall(chunks, use_pgvector, knowledge_bases, kb_id,
                                  batch.chunks, batch.embeddings, 0)
               ELSE [rows |-> chunks, ok |-> FALSE, err |-> "StorageError"]
    IN  /\ chunks' = out.rows
        /\ last' = [op |-> "add_chunks", kb_id |-> kb_id, chunks |-> batch.chunks,
                    embeddings |-> batch.embeddings, ok |-> out.ok, err |-> out.err,
                    rows |-> chunks]
        /\ UNCHANGED <<redis, redis_up, use_pgvector, db_up, knowledge_bases, documents>>
        /\ EmbedUnchanged /\ ThreadsUnchanged

SearchState ==
    [redis |-> redis, up |-> redis_up, db |-> db_up, ok |-> TRUE, err |-> "",
     result |-> None, hit |-> FALSE]

FinishSearch(op, query_vector, keyword, kb_id, top_k, out) ==
    /\ redis' = out.redis
    /\ last' = [op |-> op, query_vector |-> query_vector, keyword |-> keyword,
                kb_id |-> kb_id, top_k |-> top_k, ok |-> out.ok, err |-> out.err,
                result |-> out.result, hit |-> out.hit, up |-> redis_up,
                before |-> redis, db |-> db_up]
    /\ UNCHANGED redis_up
    /\ StoreUnchanged /\ EmbedUnchanged /\ ThreadsUnchanged

SimilaritySearch(query_vector, kb_id, top_k) ==
    FinishSearch("similarity_search", query_vector, <<>>, kb_id, top_k,
                 SimilaritySearchCall(SearchState, chunks, query_vector, kb_id, top_k))

HybridSearch(query_vector, keyword, kb_id, top_k) ==
    FinishSearch("hybrid_search", query_vector, keyword, kb_id, top_k,
                 HybridSearchCall(SearchState, chunks, query_vector, keyword, kb_id, top_k))

\* The query path of the interview endpoints.  raised is what the except
\* branch caught ("" when nothing was raised); the call itself never raises.
RetrieveRelevantContent(kb_id, query, scene_type, env, encOk) ==
    LET out == RetrieveRelevantContentCall(CallState, SearchState, chunks, kb_id, query,
                                           scene_type, env, encOk)
    IN  /\ redis' = out.redis
        /\ model_name' = out.name
        /\ model_loaded' = out.loaded
        /\ last' = [op |-> "retrieve_relevant_content", kb_id |-> kb_id, query |-> query,
                    scene_type |-> scene_type, ok |-> TRUE, err |-> "",
                    raised |-> out.raised, docs |-> out.docs, result |-> out.result,
                    up |-> redis_up, db |-> db_up]
        /\ UNCHANGED redis_up
        /\ StoreUnchanged /\ ThreadsUnchanged

\* The database becomes unreachable, or reachable again.
DbFail ==
    /\ db_up
    /\ db_up' = FALSE
    /\ UNCHANGED <<redis, redis_up, use_pgvector, knowledge_bases, documents, chunks, last>>
    /\ EmbedUnchanged /\ ThreadsUnchanged

DbRecover ==
    /\ ~db_up
    /\ db_up' = TRUE
    /\ UNCHANGED <<redis, redis_up, use_pgvector, knowledge_bases, documents, chunks, last>>
    /\ EmbedUnchanged /\ ThreadsUnchanged

\* add_chunks step by step, for calls that overlap.  Lines 157-158: the call
\* opens its session.
IngestBegin(t, kb_id, batch, document_id) ==
    /\ pc[t] = "idle"
    /\ pc' = [pc EXCEPT ![t] = "adding"]
    /\ local' = [local EXCEPT ![t] = [kb_id |-> kb_id, chunks |-> batch.chunks,
                                      embeddings |-> batch.embeddings,
                                      document_id |-> document_id, i |-> 0,
                                      session |-> <<>>, ok |-> TRUE]]
    /\ UNCHANGED <<redis, redis_up, chunks, invocations, last>>
    /\ UNCHANGED <<use_pgvector, db_up, knowledge_bases, documents>>
    /\ EmbedUnchanged

\* Lines 159-172: one turn of the loop over zip(chunks, embeddings).
IngestAdd(t) ==
    LET l == local[t]
        obj == [id |-> 0, kb_id |-> l.kb_id, document_id |-> l.document_id,
                content |-> l.chunks[l.i + 1].chunk_content,
                metadata |-> l.chunks[l.i + 1].metadata,
                embedding |-> l.embeddings[l.i + 1]]
        out == SessionAdd(chunks, l.session, obj)
    IN  /\ pc[t] = "adding"
        /\ l.i < Min(Len(l.chunks), Len(l.embeddings))
        /\ chunks' = out.rows
        /\ local' = [local EXCEPT ![t] = [l EXCEPT !.i = l.i + 1, !.session = out.session]]
        /\ UNCHANGED <<redis, redis_up, pc, invocations, last>>
        /\ UNCHANGED <<use_pgvector, db_up, knowledge_bases, documents>>
        /\ EmbedUnchanged

\* Lines 173-175: db.commit(), then the session is closed whatever happened.
IngestCommit(t) ==
    LET l == local[t]
        out == SessionCommit(chunks, l.session, use_pgvector, knowledge_bases, db_up)
    IN  /\ pc[t] = "adding"
        /\ l.i = Min(Len(l.chunks), Len(l.embeddings))
        /\ chunks' = out.rows
        /\ pc' = [pc EXCEPT ![t] = "done"]
        /\ local' = [local EXCEPT ![t] = [l EXCEPT !.session = <<>>, !.ok = out.ok]]
        /\ UNCHANGED <<redis, redis_up, invocations, last>>
        /\ UNCHANGED <<use_pgvector, db_up, knowledge_bases, documents>>
        /\ EmbedUnchanged

\* cosine_similarity on the pair of vectors held in local, together with the
\* value for the swapped pair and for the first vector with itself.
CosineSimilarity ==
    /\ last.op = "none"
    /\ last' = [op |-> "cosine_similarity", vec1 |-> local.vec1, vec2 |-> local.vec2,
                result |-> cosine_similarity(local.vec1, local.vec2),
                swapped |-> cosine_similarity(local.vec2, local.vec1),
                self |-> cosine_similarity(local.vec1, local.vec1)]
    /\ UNCHANGED <<redis, redis_up>>
    /\ StoreUnchanged /\ EmbedUnchanged /\ ThreadsUnchanged

\* TextSplitter(chunk_size, chunk_overlap).split_text(text) on the inputs
\* held in local.
SplitText ==
    LET ok == SplitterAccepts(local.chunk_size, local.chunk_overlap)
    IN  /\ last.op = "none"
        /\ last' = [op |-> "split_text", text |-> local.text,
                    chunk_size |-> local.chunk_size, chunk_overlap |-> local.chunk_overlap,
                    ok |-> ok, err |-> IF ok THEN "" ELSE "ValueError",
                    result |-> IF ok THEN SplitTextCall(local.text, local.chunk_size,
                                                        local.chunk_overlap)
                                     ELSE <<>>]
        /\ UNCHANGED <<redis, redis_up>>
        /\ StoreUnchanged /\ EmbedUnchanged /\ ThreadsUnchanged

\* split_documents on the text of local, alone and behind an empty document.
SplitDocuments(docs) ==
    LET ok == SplitterAccepts(local.chunk_size, local.chunk_overlap)
    IN  /\ last.op = "none"
        /\ last' = [op |-> "split_documents", docs |-> docs,
                    chunk_size |-> local.chunk_size, chunk_overlap |-> local.chunk_overlap,
                    ok |-> ok, err |-> IF ok THEN "" ELSE "ValueError",
                    result |-> IF ok THEN SplitDocumentsCall(docs, 1, local.chunk_size,
                                                             local.chunk_overlap)
                                     ELSE <<>>]
        /\ UNCHANGED <<redis, redis_up>>
        /\ StoreUnchanged /\ EmbedUnchanged /\ ThreadsUnchanged

\* TextSplitter().split_long_text(text, max_length) on the inputs held in
\* local.
SplitLongText ==
    LET out == SplitLongTextCall(local.text, local.max_length, 1)
    IN  /\ last.op = "none"
        /\ last' = [op |-> "split_long_text", text |-> local.text,
                    max_length |-> local.max_length, ok |-> out.ok, err |-> out.err,
                    result |-> out.result]
        /\ UNCHANGED <<redis, redis_up>>
        /\ StoreUnchanged /\ EmbedUnchanged /\ ThreadsUnchanged

CreateKnowledgeBase ==
    /\ db_up
    /\ knowledge_bases' = knowledge_bases \cup {NewKbId(knowledge_bases)}
    /\ last' = [op |-> "create_knowledge_base", ok |-> TRUE, err |-> "",
                result |-> Some(NewKbId(knowledge_bases))]
    /\ UNCHANGED <<redis, redis_up, use_pgvector, db_up, documents, chunks>>
    /\ EmbedUnchanged /\ ThreadsUnchanged

AddDocument(kb_id, file_path, file_type, content) ==
    LET out == AddDocumentCall(documents, use_pgvector, knowledge_bases, kb_id,
                               file_path, file_type, content)
    IN  /\ db_up
        /\ documents' = out.docs
        /\ last' = [op |-> "add_document", kb_id |-> kb_id, ok |-> out.ok, err |-> out.err,
                    result |-> out.result]
        /\ UNCHANGED <<redis, redis_up, use_pgvector, db_up, knowledge_bases, chunks>>
        /\ EmbedUnchanged /\ ThreadsUnchanged

\* A call that reads the database and changes nothing.
FinishLookup(op, kb_id, out) ==
    /\ last' = [op |-> op, kb_id |-> kb_id, ok |-> out.ok, err |-> out.err,
                result |-> out.result]
    /\ UNCHANGED <<redis, redis_up>>
    /\ StoreUnchanged /\ EmbedUnchanged /\ ThreadsUnchanged

GetKnowledgeBaseById(kb_id) ==
    FinishLookup("get_knowledge_base_by_id", kb_id,
                 GetKnowledgeBaseByIdCall(knowledge_bases, kb_id, db_up))

GetChunksByKbId(kb_id, limit) ==
    FinishLookup("get_chunks_by_kb_id", kb_id,
                 [ok |-> db_up, err |-> IF db_up THEN "" ELSE "StorageError",
                  result |-> IF db_up THEN Some(GetChunksByKbIdCall(chunks, kb_id, limit))
                                      ELSE None])

GetKnowledgeBaseInfo(kb_id) ==
    FinishLookup("get_knowledge_base_info", kb_id,
                 GetKnowledgeBaseInfoCall(knowledge_bases, chunks, kb_id, db_up))

\* What a job does once process_document has returned to it.
ApplyResume(t, res) ==
    /\ pc' = [pc EXCEPT ![t] = res.pc]
    /\ local' = [local EXCEPT ![t] = res.local]
    /\ redis' = res.redis
    /\ last' = IF res.finished THEN res.call ELSE last

\* The locals of process_document are gone when it returns.
Returned(l) ==
    [l EXCEPT !.doc_id = 0, !.content = <<>>, !.chunks = <<>>, !.embeddings = <<>>]

\* process_document, lines 50-56, for the file in hand.
ProcRead(t) ==
    LET l == local[t]
        file == l.files[l.i + 1]
        out == ReadAndAddDocument(documents, use_pgvector, knowledge_bases, db_up, file,
                                  l.kb_id)
    IN  /\ pc[t] = "read"
        /\ documents' = out.docs
        /\ IF out.ok
           THEN /\ pc' = [pc EXCEPT ![t] = "embed"]
                /\ local' = [local EXCEPT ![t] = [l EXCEPT !.doc_id = out.doc_id,
                                                           !.content = out.content]]
                /\ UNCHANGED <<redis, last>>
           ELSE ApplyResume(t, Resume(Returned(l), redis, redis_up, ResultFailure(out.err)))
        /\ UNCHANGED <<redis_up, use_pgvector, db_up, knowledge_bases, chunks, invocations>>
        /\ EmbedUnchanged

\* process_document, lines 58-62.
ProcEmbed(t, env, failAt) ==
    LET l == local[t]
        file == l.files[l.i + 1]
        se == SplitAndEmbed(CallState, l.content, file.file_path, env, failAt)
    IN  /\ pc[t] = "embed"
        /\ model_name' = se.out.name
        /\ model_loaded' = se.out.loaded
        /\ IF se.out.ok
           THEN /\ pc' = [pc EXCEPT ![t] = "store"]
                /\ local' = [local EXCEPT ![t] = [l EXCEPT !.chunks = se.chunks,
                                                           !.embeddings = se.out.result]]
                /\ redis' = se.out.redis
                /\ UNCHANGED last
           ELSE ApplyResume(t, Resume(Returned(l), se.out.redis, redis_up,
                                      ResultFailure(se.out.err)))
        /\ UNCHANGED <<redis_up, invocations>>
        /\ StoreUnchanged

\* process_document, lines 65-79.
ProcStore(t) ==
    LET l == local[t]
        out == StoreChunks(chunks, use_pgvector, knowledge_bases, db_up, l.kb_id, l.chunks,
                           l.embeddings, l.doc_id)
    IN  /\ pc[t] = "store"
        /\ chunks' = out.rows
        /\ ApplyResume(t, Resume(Returned(l), redis, redis_up,
                                 IF out.ok THEN ResultSuccess(l.doc_id, Len(l.chunks))
                                           ELSE ResultFailure(out.err)))
        /\ UNCHANGED <<redis_up, use_pgvector, db_up, knowledge_bases, documents, invocations>>
        /\ EmbedUnchanged

\* batch_process_documents is called; with no file it returns at once.
BatchProcessDocuments(t, files, kb_id) ==
    /\ pc[t] = "idle"
    /\ IF files = <<>>
       THEN /\ pc' = [pc EXCEPT ![t] = "done"]
            /\ last' = [op |-> "batch_process_documents", kb_id |-> kb_id, files |-> files,
                        result |-> BatchSummary(<<>>)]
            /\ UNCHANGED local
       ELSE /\ pc' = [pc EXCEPT ![t] = "read"]
            /\ local' = [local EXCEPT ![t] = [IdleJob EXCEPT !.kind = "batch",
                                                             !.files = files,
                                                             !.kb_id = kb_id]]
            /\ UNCHANGED last
    /\ UNCHANGED <<redis, redis_up, invocations>>
    /\ StoreUnchanged /\ EmbedUnchanged

\* background_tasks.add_task: the job waits until the response is sent.
Enqueue(t, kind, files, kb_id) ==
    /\ pc' = [pc EXCEPT ![t] = "queued"]
    /\ local' = [local EXCEPT ![t] = [IdleJob EXCEPT !.kind = kind,
                                                     !.task_id = NewTaskId(t),
                                                     !.files = files, !.kb_id = kb_id]]

\* upload_document.  kb_id is Optional: without one a knowledge base is
\* created; one that does not exist is HTTP 404; anything raised is HTTP 500.
UploadDocument(t, file, kb_id) ==
    LET op == "upload_document"
        kb == GetKnowledgeBaseByIdCall(knowledge_bases,
                                       IF kb_id = None THEN 0 ELSE Value(kb_id), db_up)
        new_id == NewKbId(knowledge_bases)
    IN  /\ pc[t] = "idle"
        /\ IF file.file_type \notin AllowedTypes
           THEN /\ last' = UploadResponse(op, FALSE, "HTTP400", None, kb_id)
                /\ UNCHANGED <<pc, local, knowledge_bases>>
           ELSE IF kb_id = None /\ db_up
           THEN /\ knowledge_bases' = knowledge_bases \cup {new_id}
                /\ Enqueue(t, "single", <<file>>, new_id)
                /\ last' = UploadResponse(op, TRUE, "", Some(NewTaskId(t)), Some(new_id))
           ELSE IF kb_id = None \/ ~kb.ok
           THEN /\ last' = UploadResponse(op, FALSE, "HTTP500", None, kb_id)
                /\ UNCHANGED <<pc, local, knowledge_bases>>
           ELSE IF kb.result = None
           THEN /\ last' = UploadResponse(op, FALSE, "HTTP404", None, kb_id)
                /\ UNCHANGED <<pc, local, knowledge_bases>>
           ELSE /\ Enqueue(t, "single", <<file>>, Value(kb_id))
                /\ last' = UploadResponse(op, TRUE, "", Some(NewTaskId(t)), kb_id)
                /\ UNCHANGED knowledge_bases
        /\ UNCHANGED <<redis, redis_up, use_pgvector, db_up, documents, chunks, invocations>>
        /\ EmbedUnchanged

\* upload_documents_batch: every file is validated, the knowledge base is
\* looked up, the job is queued.
UploadDocumentsBatch(t, files, kb_id) ==
    LET op == "upload_documents_batch"
        kb == GetKnowledgeBaseByIdCall(knowledge_bases, kb_id, db_up)
    IN  /\ pc[t] = "idle"
        /\ IF \E n \in 1..Len(files) : files[n].file_type \notin BatchTypes
           THEN /\ last' = UploadResponse(op, FALSE, "HTTP400", None, Some(kb_id))
                /\ UNCHANGED <<pc, local>>
           ELSE IF ~kb.ok
           THEN /\ last' = UploadResponse(op, FALSE, "HTTP500", None, Some(kb_id))
                /\ UNCHANGED <<pc, local>>
           ELSE IF kb.result = None
           THEN /\ last' = UploadResponse(op, FALSE, "HTTP404", None, Some(kb_id))
                /\ UNCHANGED <<pc, local>>
           ELSE /\ Enqueue(t, "batch_task", files, kb_id)
                /\ last' = UploadResponse(op, TRUE, "", Some(NewTaskId(t)), Some(kb_id))
        /\ UNCHANGED <<redis, redis_up, invocations>>
        /\ StoreUnchanged /\ EmbedUnchanged

\* The background task starts: lines 264-268 and 302-311 write "processing".
TaskStart(t) ==
    LET w == WriteStatus(local[t], redis, redis_up, "processing", 0)
    IN  /\ pc[t] = "queued"
        /\ redis' = w.redis
        /\ local' = [local EXCEPT ![t] = w.local]
        /\ pc' = [pc EXCEPT ![t] = "read"]
        /\ UNCHANGED <<redis_up, invocations, last>>
        /\ StoreUnchanged /\ EmbedUnchanged

GetTaskStatus(task_id) ==
    LET out == GetTaskStatusCall(redis, redis_up, task_id)
    IN  /\ last' = [op |-> "get_task_status", task_id |-> task_id, ok |-> out.ok,
                    err |-> out.err, result |-> out.result]
        /\ UNCHANGED <<redis, redis_up, pc, local, invocations>>
        /\ StoreUnchanged /\ EmbedUnchanged

\* The process that runs the job stops for good: nothing of the job runs on.
Abandon(t) ==
    /\ pc[t] \in {"read", "embed", "store"}
    /\ pc' = [pc EXCEPT ![t] = "abandoned"]
    /\ UNCHANGED <<redis, redis_up, local, invocations, last>>
    /\ StoreUnchanged /\ EmbedUnchanged

----------------------------------------------------------------------------
(* Specifications *)

EmbedIdle ==
    /\ model_name = EMBEDDING_MODEL
    /\ model_loaded = FALSE

StoreEmpty ==
    /\ db_up = TRUE
    /\ knowledge_bases = {}
    /\ documents = <<>>
    /\ chunks = <<>>

ThreadsIdle ==
    /\ pc = <<>>
    /\ local = <<>>
    /\ invocations = <<>>

\* The store, its searches and the cache in front of them, from an empty
\* database with one knowledge base.
Init ==
    /\ redis = <<>>
    /\ redis_up = TRUE
    /\ use_pgvector \in BOOLEAN
    /\ db_up = TRUE
    /\ knowledge_bases = {1}
    /\ documents = <<>>
    /\ chunks = <<>>
    /\ EmbedIdle /\ ThreadsIdle
    /\ last = NoCall

StoreQueries == {Vec(10, 0, 0), Vec(10, 0, 10)}
StoreTopKs == {1, MaxTopK}

Next ==
    \/ \E kb_id \in KbIds, batch \in Batches :
          Len(chunks) + Len(batch.chunks) <= MaxStored /\ AddChunks(kb_id, batch)
    \/ \E q \in StoreQueries, kb_id \in knowledge_bases, top_k \in StoreTopKs :
          SimilaritySearch(q, kb_id, top_k)
    \/ \E key \in DOMAIN redis : Expire(key)

Spec == Init /\ [][Next]_vars

\* The embedding paths over one cache.
InitEmbed ==
    /\ redis = <<>>
    /\ redis_up = TRUE
    /\ use_pgvector = FALSE
    /\ StoreEmpty /\ EmbedIdle /\ ThreadsIdle
    /\ last = NoCall

NextEmbed ==
    \/ \E text \in Texts, env \in LoadEnv(model_loaded), encOk \in BOOLEAN :
          EmbedQuery(text, env, encOk)
    \/ \E texts \in ContentLists, env \in LoadEnv(model_loaded), failAt \in 0..1 :
          EmbedDocuments(texts, env, failAt)
    \/ \E contents \in ContentLists, env \in LoadEnv(model_loaded), failAt \in 0..2 :
          GenerateEmbeddings(contents, env, failAt)
    \/ ExpireAll

SpecEmbed == InitEmbed /\ [][NextEmbed]_vars

\* One search over a table of chunks: the ranking as a function of its inputs.
InitRank ==
    /\ redis = <<>>
    /\ redis_up \in BOOLEAN
    /\ use_pgvector \in BOOLEAN
    /\ db_up = TRUE
    /\ knowledge_bases = KbIds
    /\ documents = <<>>
    /\ chunks \in Tables
    /\ EmbedIdle /\ ThreadsIdle
    /\ last = NoCall

NextRank ==
    /\ last.op = "none"
    /\ \/ \E q \in Queries, kb_id \in KbIds, top_k \in TopKs :
             SimilaritySearch(q, kb_id, top_k)
       \/ \E q \in Queries, keyword \in Keywords, kb_id \in KbIds, top_k \in TopKs :
             HybridSearch(q, keyword, kb_id, top_k)

SpecRank == InitRank /\ [][NextRank]_vars

\* One embed_documents or embed_query call from a cache that holds the
\* vectors of some of the texts: the result as a function of its inputs.
DocCache(name, cached) ==
    [key \in {EmbedKey("embedding_doc", name, text) : text \in cached} |->
        Encode(name, SubSeq(key[2], Len(name) + 2, Len(key[2])))]

InitDocs ==
    /\ \E cached \in SUBSET DocTexts :
          /\ model_loaded \in (IF cached = {} THEN BOOLEAN ELSE {TRUE})
          /\ model_name \in (IF model_loaded THEN {EMBEDDING_MODEL, fallback_model}
                                              ELSE {EMBEDDING_MODEL})
          /\ redis = DocCache(model_name, cached)
    /\ redis_up \in BOOLEAN
    /\ use_pgvector = FALSE
    /\ StoreEmpty /\ ThreadsIdle
    /\ last = NoCall

NextDocs ==
    /\ last.op = "none"
    /\ \/ \E texts \in DocInputs, env \in LoadEnv(model_loaded), failAt \in 0..2 :
             EmbedDocuments(texts, env, failAt)
       \/ \E text \in DocTexts, env \in LoadEnv(model_loaded), encOk \in BOOLEAN :
             EmbedQuery(text, env, encOk)

SpecDocs == InitDocs /\ [][NextDocs]_vars

\* The three cached operations while the Redis server comes and goes.
CacheBatches == {b \in Batches : Len(b.chunks) = 1}
RegistryBatches == {b \in Batches : b.chunks = <<InChunk(<<"y">>, 0)>>}
CacheLists == {<<<<"a">>>>, <<<<"a">>, <<"b">>>>}

InitCache ==
    /\ redis = <<>>
    /\ redis_up = TRUE
    /\ use_pgvector = FALSE
    /\ db_up = TRUE
    /\ knowledge_bases = {1}
    /\ documents = <<>>
    /\ chunks = <<>>
    /\ EmbedIdle /\ ThreadsIdle
    /\ last = NoCall

NextCache ==
    \/ \E batch \in CacheBatches :
          Len(chunks) + Len(batch.chunks) <= MaxStored /\ AddChunks(1, batch)
    \/ \E q \in StoreQueries : SimilaritySearch(q, 1, MaxTopK)
    \/ \E env \in LoadEnv(model_loaded), encOk \in BOOLEAN :
          EmbedQuery(<<"a">>, env, encOk)
    \/ \E texts \in CacheLists, env \in LoadEnv(model_loaded), failAt \in 0..1 :
          EmbedDocuments(texts, env, failAt)
    \/ RedisFail
    \/ RedisRecover

SpecCache == InitCache /\ [][NextCache]_vars

\* Two threads inside embed_query on the one shared EmbeddingModel: the
\* worker of asyncio.to_thread in load_embedding_model and a request.
Threads == {1, 2}

IdleLocal == [calls |-> 0, text |-> <<>>, cache_key |-> <<>>, embedding |-> <<>>,
              returned |-> None]

\* Lines 121-127: the key is built and the cache is asked.
QueryStart(t, text) ==
    LET cache_key == EmbedKey("embedding_query", model_name, text)
        cached == RedisGet(redis, redis_up, cache_key)
    IN  /\ pc[t] = "idle"
        /\ local[t].calls < MaxCalls
        /\ IF Truthy(cached.value)
           THEN /\ local' = [local EXCEPT ![t] = [@ EXCEPT !.calls = @ + 1, !.text = text,
                                                           !.cache_key = cache_key,
                                                           !.returned = Some(Value(cached.value))]]
                /\ last' = [op |-> "embed_query", thread |-> t, args |-> <<text>>,
                            ok |-> TRUE, err |-> "", result |-> Value(cached.value)]
                /\ UNCHANGED pc
           ELSE /\ local' = [local EXCEPT ![t] = [@ EXCEPT !.calls = @ + 1, !.text = text,
                                                           !.cache_key = cache_key]]
                /\ pc' = [pc EXCEPT ![t] = "miss"]
                /\ UNCHANGED last
        /\ UNCHANGED <<redis, redis_up, invocations>>
        /\ EmbedUnchanged /\ StoreUnchanged

\* Lines 129-138: the model is loaded if need be and encodes the text.
QueryEncode(t, env, encOk) ==
    LET ld == LoadModel(model_name, model_loaded, env)
        text == local[t].text
    IN  /\ pc[t] = "miss"
        /\ model_name' = ld.name
        /\ model_loaded' = ld.loaded
        /\ IF ld.raised \/ ~encOk
           THEN /\ pc' = [pc EXCEPT ![t] = "idle"]
                /\ last' = [op |-> "embed_query", thread |-> t, args |-> <<text>>,
                            ok |-> FALSE,
                            err |-> IF ld.raised THEN "RuntimeError" ELSE "ProviderError",
                            result |-> None]
                /\ UNCHANGED <<local, invocations>>
           ELSE /\ pc' = [pc EXCEPT ![t] = "encoded"]
                /\ local' = [local EXCEPT ![t] = [@ EXCEPT !.embedding = Encode(ld.name, text)]]
                /\ invocations' = [invocations EXCEPT ![text] = @ + 1]
                /\ UNCHANGED last
        /\ UNCHANGED <<redis, redis_up>>
        /\ StoreUnchanged

\* Lines 140-143: the vector is cached and returned.
QueryStore(t) ==
    /\ pc[t] = "encoded"
    /\ redis' = RedisSet(redis, redis_up, local[t].cache_key, local[t].embedding)
    /\ pc' = [pc EXCEPT ![t] = "idle"]
    /\ local' = [local EXCEPT ![t] = [@ EXCEPT !.returned = Some(local[t].embedding)]]
    /\ last' = [op |-> "embed_query", thread |-> t, args |-> <<local[t].text>>,
                ok |-> TRUE, err |-> "", result |-> local[t].embedding]
    /\ UNCHANGED <<redis_up, invocations>>
    /\ EmbedUnchanged /\ StoreUnchanged

InitThreads ==
    /\ redis = <<>>
    /\ redis_up = TRUE
    /\ use_pgvector = FALSE
    /\ StoreEmpty /\ EmbedIdle
    /\ pc = [t \in Threads |-> "idle"]
    /\ local = [t \in Threads |-> IdleLocal]
    /\ invocations = [text \in Texts |-> 0]
    /\ last = NoCall

NextThreads ==
    \/ \E t \in Threads, text \in Texts : QueryStart(t, text)
    \/ \E t \in Threads, env \in LoadEnv(model_loaded), encOk \in BOOLEAN :
          QueryEncode(t, env, encOk)
    \/ \E t \in Threads : QueryStore(t)

SpecThreads == InitThreads /\ [][NextThreads]_vars

\* Ingestion into one knowledge base and searches of it, with the clock
\* running: every key written with setex runs out of its TTL in the end.
LiveTopKs == {MaxTopK - 1, MaxTopK}
LiveKeys == {SimKey(q, 1, top_k) : q \in StoreQueries, top_k \in LiveTopKs}

NextLive ==
    \/ \E batch \in CacheBatches :
          Len(chunks) + Len(batch.chunks) <= MaxStored /\ AddChunks(1, batch)
    \/ \E q \in StoreQueries, top_k \in LiveTopKs : SimilaritySearch(q, 1, top_k)
    \/ \E key \in LiveKeys : Expire(key)

SpecLive == InitCache /\ [][NextLive]_vars /\ \A key \in LiveKeys : WF_vars(Expire(key))

\* The chunker as a function of the text, the chunk size and the overlap.
SplitChars == {"a", " ", "\n"}
SplitTexts == SeqsUpTo(SplitChars, MaxLen)

InitSplit ==
    /\ redis = <<>>
    /\ redis_up = TRUE
    /\ use_pgvector = FALSE
    /\ StoreEmpty /\ EmbedIdle
    /\ pc = <<>>
    /\ \E text \in SplitTexts, chunk_size \in 1..MaxChunk, chunk_overlap \in 0..MaxChunk :
          local = [text |-> text, chunk_size |-> chunk_size, chunk_overlap |-> chunk_overlap]
    /\ invocations = <<>>
    /\ last = NoCall

NextSplit ==
    \/ SplitText
    \/ \E docs \in {<<[content |-> local.text]>>,
                     <<[content |-> <<>>], [content |-> local.text]>>} :
          SplitDocuments(docs)

SpecSplit == InitSplit /\ [][NextSplit]_vars

\* split_long_text as a function of the text and max_length.
InitLong ==
    /\ redis = <<>>
    /\ redis_up = TRUE
    /\ use_pgvector = FALSE
    /\ StoreEmpty /\ EmbedIdle
    /\ pc = <<>>
    /\ \E text \in SplitTexts, max_length \in 1..MaxChunk :
          local = [text |-> text, max_length |-> max_length]
    /\ invocations = <<>>
    /\ last = NoCall

NextLong == SplitLongText

SpecLong == InitLong /\ [][NextLong]_vars

\* cosine_similarity as a function of two vectors of one length.
CosVectors(n) == [1..n -> (-1)..MaxComp]

InitCosine ==
    /\ redis = <<>>
    /\ redis_up = TRUE
    /\ use_pgvector = FALSE
    /\ StoreEmpty /\ EmbedIdle
    /\ pc = <<>>
    /\ \E n \in 0..MaxDim :
          \E vec1 \in CosVectors(n), vec2 \in CosVectors(n) :
              local = [vec1 |-> vec1, vec2 |-> vec2]
    /\ invocations = <<>>
    /\ last = NoCall

NextCosine == CosineSimilarity

SpecCosine == InitCosine /\ [][NextCosine]_vars

\* Several knowledge bases side by side: ingestion into each, both searches
\* of each, and the result cache with its expiry.
InitIsolation ==
    /\ redis = <<>>
    /\ redis_up = TRUE
    /\ use_pgvector \in BOOLEAN
    /\ db_up = TRUE
    /\ knowledge_bases = KbIds
    /\ documents = <<>>
    /\ chunks = <<>>
    /\ EmbedIdle /\ ThreadsIdle
    /\ last = NoCall

NextIsolation ==
    \/ \E kb_id \in KbIds, batch \in RegistryBatches :
          Len(chunks) + Len(batch.chunks) <= MaxStored /\ AddChunks(kb_id, batch)
    \/ \E kb_id \in KbIds : SimilaritySearch(Vec(10, 0, 0), kb_id, MaxTopK)
    \/ \E kb_id \in KbIds : HybridSearch(Vec(10, 0, 0), <<"x">>, kb_id, MaxTopK)
    \/ \E key \in DOMAIN redis : Expire(key)

SpecIsolation == InitIsolation /\ [][NextIsolation]_vars

\* add_chunks with lists of chunks and of vectors of equal and of unequal
\* length, on both backends.
UnevenBatches ==
    {[chunks |-> <<InChunk(<<"x">>, 0), InChunk(<<"x">>, 1)>>,
      embeddings |-> <<Vec(0, 10, 0)>>],
     [chunks |-> <<InChunk(<<"y">>, 0)>>,
      embeddings |-> <<Vec(0, 0, 10), Vec(10, 0, 0)>>]}

NextPairs ==
    \/ \E kb_id \in KbIds, batch \in Batches \cup UnevenBatches :
          Len(chunks) + Len(batch.chunks) <= MaxStored /\ AddChunks(kb_id, batch)
    \/ \E kb_id \in KbIds : HybridSearch(Vec(10, 0, 0), <<"x">>, kb_id, MaxTopK)

SpecPairs == InitIsolation /\ [][NextPairs]_vars

\* Two add_chunks calls on one knowledge base that overlap, a reader beside
\* them, and a database that comes and goes.  A call carries its thread as
\* document_id, which tells its rows from the other call's.
IdleIngest == [kb_id |-> 0, chunks |-> <<>>, embeddings |-> <<>>, document_id |-> 0,
               i |-> 0, session |-> <<>>, ok |-> TRUE]

ReaderTopK == 2 * MaxTexts

InitIngest ==
    /\ redis = <<>>
    /\ redis_up = TRUE
    /\ use_pgvector \in BOOLEAN
    /\ db_up = TRUE
    /\ knowledge_bases = {1}
    /\ documents = <<>>
    /\ chunks = <<>>
    /\ EmbedIdle
    /\ pc = [t \in Threads |-> "idle"]
    /\ local = [t \in Threads |-> IdleIngest]
    /\ invocations = <<>>
    /\ last = NoCall

NextIngest ==
    \/ \E t \in Threads, batch \in Batches : IngestBegin(t, 1, batch, t)
    \/ \E t \in Threads : IngestAdd(t)
    \/ \E t \in Threads : IngestCommit(t)
    \/ HybridSearch(Vec(10, 0, 0), <<"x">>, 1, ReaderTopK)
    \/ DbFail
    \/ DbRecover

SpecIngest == InitIngest /\ [][NextIngest]_vars

\* The searches and the query path built on them while the database comes
\* and goes.
Scenes == {"it", "language"}

InitQuery ==
    /\ redis = <<>>
    /\ redis_up = TRUE
    /\ use_pgvector = FALSE
    /\ db_up = TRUE
    /\ knowledge_bases = {1}
    /\ documents = <<>>
    /\ chunks = <<>>
    /\ EmbedIdle /\ ThreadsIdle
    /\ last = NoCall

NextQuery ==
    \/ \E batch \in CacheBatches :
          Len(chunks) + Len(batch.chunks) <= MaxStored /\ AddChunks(1, batch)
    \/ SimilaritySearch(Vec(10, 0, 0), 1, MaxTopK)
    \/ HybridSearch(Vec(10, 0, 0), <<"x">>, 1, MaxTopK)
    \/ \E scene_type \in Scenes, env \in LoadEnv(model_loaded), encOk \in BOOLEAN :
          RetrieveRelevantContent(1, <<"a">>, scene_type, env, encOk)
    \/ DbFail
    \/ DbRecover

SpecQuery == InitQuery /\ [][NextQuery]_vars

\* The registry, ingestion, both searches and the lookups over several
\* knowledge bases, from an empty SQLite database.
DocFile == [file_path |-> <<"f">>, file_type |-> <<"txt">>, content |-> <<"x">>]

InitRegistry ==
    /\ redis = <<>>
    /\ redis_up = TRUE
    /\ use_pgvector = FALSE
    /\ StoreEmpty /\ EmbedIdle /\ ThreadsIdle
    /\ last = NoCall

NextRegistry ==
    \/ Cardinality(knowledge_bases) < MaxKb /\ CreateKnowledgeBase
    \/ \E kb_id \in KbIds :
          /\ Len(documents) < MaxDocs
          /\ AddDocument(kb_id, DocFile.file_path, DocFile.file_type, DocFile.content)
    \/ \E kb_id \in KbIds, batch \in RegistryBatches :
          Len(chunks) + Len(batch.chunks) <= MaxStored /\ AddChunks(kb_id, batch)
    \/ SimilaritySearch(Vec(10, 0, 0), 1, MaxTopK)
    \/ \E kb_id \in KbIds : HybridSearch(Vec(10, 0, 0), <<"x">>, kb_id, MaxTopK)
    \/ \E kb_id \in KbIds : GetKnowledgeBaseById(kb_id)
    \/ \E kb_id \in KbIds : GetChunksByKbId(kb_id, MaxTopK)
    \/ \E kb_id \in KbIds : GetKnowledgeBaseInfo(kb_id)

SpecRegistry == InitRegistry /\ [][NextRegistry]_vars

\* batch_process_documents over a list of files, one job, while the database
\* comes and goes, the model loads or fails and the process may stop.
MaxFiles == 3       \* files of one batch

FileKinds == {"a", "b", "pptx"}

\* The n-th file of a batch: saved under a name of its own.  A .pptx passes
\* the single upload and has no reader, an .exe passes no upload, and "bad"
\* is a .txt that cannot be read.
FileAt(n, kind) ==
    [file_path |-> <<"f", ToString(n)>>,
     file_type |-> IF kind \in {"pptx", "exe"} THEN <<kind>> ELSE <<"txt">>,
     content |-> IF kind \in {"pptx", "exe", "bad"} THEN None ELSE Some(<<kind>>)]

FileLists ==
    {[n \in 1..Len(ks) |-> FileAt(n, ks[n])] : ks \in SeqsUpTo(FileKinds, MaxFiles)}

Workers == {1}

InitBatch ==
    /\ redis = <<>>
    /\ redis_up = TRUE
    /\ use_pgvector = FALSE
    /\ db_up = TRUE
    /\ knowledge_bases = {1}
    /\ documents = <<>>
    /\ chunks = <<>>
    /\ EmbedIdle
    /\ pc = [t \in Workers |-> "idle"]
    /\ local = [t \in Workers |-> IdleJob]
    /\ invocations = <<>>
    /\ last = NoCall

NextBatch ==
    \/ \E files \in FileLists : BatchProcessDocuments(1, files, 1)
    \/ ProcRead(1)
    \/ \E env \in LoadEnv(model_loaded), failAt \in 0..1 : ProcEmbed(1, env, failAt)
    \/ ProcStore(1)
    \/ Abandon(1)
    \/ DbFail
    \/ DbRecover

\* A single upload, its background task and the status queries of the
\* client, while the database and the Redis server come and go.
TaskFiles == {FileAt(1, kind) : kind \in {"a", "pptx", "bad", "exe"}}

NextTask ==
    \/ \E file \in TaskFiles, kb_id \in {None} \cup {Some(k) : k \in KbIds} :
          UploadDocument(1, file, kb_id)
    \/ TaskStart(1)
    \/ ProcRead(1)
    \/ \E env \in LoadEnv(model_loaded), failAt \in 0..1 : ProcEmbed(1, env, failAt)
    \/ ProcStore(1)
    \/ GetTaskStatus(NewTaskId(1))
    \/ DbFail
    \/ DbRecover
    \/ RedisFail
    \/ RedisRecover

\* The background task is run once the response is sent, and runs on.
SpecTask ==
    /\ InitBatch /\ [][NextTask]_vars
    /\ WF_vars(TaskStart(1)) /\ WF_vars(ProcRead(1)) /\ WF_vars(ProcStore(1))
    /\ []<>(pc[1] # "embed")

\* The job is scheduled: each step of it is weakly fair.  The step of lines
\* 58-62 is enabled exactly while the job stands before it, so its fairness
\* says that the job does not stand there for ever.
TaskFileKinds == {"a", "bad"}
TaskFileLists ==
    {[n \in 1..Len(ks) |-> FileAt(n, ks[n])] :
        ks \in SeqsUpTo(TaskFileKinds, MaxFiles - 1) \ {<<>>}}

\* A batch upload and its background task, while the database comes and goes.
NextBatchTask ==
    \/ \E files \in TaskFileLists, kb_id \in KbIds : UploadDocumentsBatch(1, files, kb_id)
    \/ TaskStart(1)
    \/ ProcRead(1)
    \/ \E env \in LoadEnv(model_loaded), failAt \in 0..1 : ProcEmbed(1, env, failAt)
    \/ ProcStore(1)
    \/ GetTaskStatus(NewTaskId(1))
    \/ DbFail
    \/ DbRecover

SpecBatchTask == InitBatch /\ [][NextBatchTask]_vars

SpecBatch ==
    /\ InitBatch /\ [][NextBatch]_vars
    /\ WF_vars(ProcRead(1)) /\ WF_vars(ProcStore(1))
    /\ []<>(pc[1] # "embed")

----------------------------------------------------------------------------
(* Properties *)

Searches == {"similarity_search", "hybrid_search"}

EmbedOps == {"embed_query", "embed_documents", "_generate_embeddings"}

\* How often x occurs in seq.
Occurrences(seq, x) == Cardinality({i \in 1..Len(seq) : seq[i] = x})

\* The rows of knowledge base kb_id, as search results.
KbResults(kb_id) ==
    {ResultOf(chunks[n]) : n \in {m \in 1..Len(chunks) : chunks[m].kb_id = kb_id}}

\* ranked lists the members of pool that come first when pool is ordered by
\* descending score(_), equal scores by ascending id, and it holds top_k of
\* them, or all when there are fewer.
IsRanking(ranked, pool, score(_), top_k) ==
    /\ Len(ranked) = Min(top_k, Cardinality(pool))
    /\ \A i \in 1..Len(ranked) : ranked[i] \in pool
    /\ \A i, j \in 1..Len(ranked) :
          i < j => \/ score(ranked[i]) > score(ranked[j])
                   \/ score(ranked[i]) = score(ranked[j]) /\ ranked[i].id < ranked[j].id
    /\ \A x \in pool :
          (\A i \in 1..Len(ranked) : ranked[i] # x) =>
              \A i \in 1..Len(ranked) :
                 \/ score(ranked[i]) > score(x)
                 \/ score(ranked[i]) = score(x) /\ ranked[i].id < x.id

\* C1: embed_documents returns one vector per input text, and position i
\* holds the vector of texts[i], whatever part of the texts was cached and
\* however many batches the list spans.
C1_BatchKeepsOrder ==
    (last.op = "embed_documents" /\ last.ok) =>
        /\ Len(last.result) = Len(last.args)
        /\ \A i \in 1..Len(last.args) : last.result[i] = Encode(model_name, last.args[i])

\* A list longer than one batch in which a freshly computed text precedes a
\* cached one, and both kinds occur.
C1_Witness ==
    /\ last.op = "embed_documents" /\ last.ok /\ last.up
    /\ Len(last.args) > batch_size
    /\ last.log # <<>>
    /\ \E i, j \in 1..Len(last.args) :
          /\ i < j
          /\ EmbedKey("embedding_doc", last.name, last.args[i]) \notin DOMAIN last.before
          /\ EmbedKey("embedding_doc", last.name, last.args[j]) \in DOMAIN last.before

\* C2: an add_chunks call with a vector whose length is not the configured
\* dimension fails and persists none of its chunks, in either representation.
C2_WrongDimensionRejected ==
    (/\ last.op = "add_chunks"
     /\ \E i \in 1..Len(last.embeddings) : Len(last.embeddings[i]) # VectorColumnDim)
        => ~last.ok /\ chunks = last.rows

\* C3: on a cache miss similarity_search returns the chunks of the knowledge
\* base by descending cosine similarity to the query, equal similarities in
\* load order, cut at top_k.
C3_RankedBySimilarity ==
    (last.op = "similarity_search" /\ last.ok /\ ~last.hit) =>
        IsRanking(last.result, KbResults(last.kb_id),
                  LAMBDA x : cosine_similarity(last.query_vector, x.embedding),
                  last.top_k)

\* The scenario of the design: embeddings [1,0], [0,1], [0.7,0.7], query
\* [1,0], top_k = 2 yield the first and the third chunk.
C3_Witness ==
    /\ last.op = "similarity_search" /\ last.ok /\ ~last.hit
    /\ last.query_vector = Vec(10, 0, 0) /\ last.top_k = 2 /\ last.kb_id = 1
    /\ Len(chunks) = 3
    /\ \A n \in 1..3 : chunks[n].kb_id = 1
    /\ chunks[1].embedding = Vec(10, 0, 0)
    /\ chunks[2].embedding = Vec(0, 10, 0)
    /\ chunks[3].embedding = Vec(7, 7, 0)
    /\ Len(last.result) = 2 /\ last.result[1].id = 1 /\ last.result[2].id = 3

\* C4: a cached ranked list is handed only to a call whose kb_id, top_k and
\* whole query vector are those of the call that stored it.
C4_CacheKeyedByWholeVector ==
    [][(/\ last.op = "similarity_search" /\ ~last.hit /\ last.up
        /\ last'.op = "similarity_search" /\ last'.hit
        /\ SimKey(last.query_vector, last.kb_id, last.top_k)
             = SimKey(last'.query_vector, last'.kb_id, last'.top_k)
        /\ redis' = redis)
       => (/\ last'.kb_id = last.kb_id
           /\ last'.top_k = last.top_k
           /\ last'.query_vector = last.query_vector)]_vars

\* C5: in one embed_documents call the entries of a repeated text are
\* identical and the capability encodes each distinct text at most once.
C5_DuplicatesEncodedOnce ==
    (last.op = "embed_documents" /\ last.ok /\ last.up) =>
        /\ \A i, j \in 1..Len(last.args) :
              last.args[i] = last.args[j] => last.result[i] = last.result[j]
        /\ \A text \in DocTexts : Occurrences(last.log, text) <= 1

\* C6: with a reachable cache and one model, embed_query calls of the same
\* text, overlapping or not, return identical vectors and the capability
\* encodes the text at most once.
C6_QueryEncodedOnce ==
    model_name = EMBEDDING_MODEL =>
        /\ \A text \in Texts : invocations[text] <= 1
        /\ \A t, u \in Threads :
              (/\ local[t].returned # None /\ local[u].returned # None
               /\ pc[t] = "idle" /\ pc[u] = "idle"
               /\ local[t].text = local[u].text)
                  => local[t].returned = local[u].returned

\* Some entry of the cache r holds the vector of text under model.
CachedBySomePath(r, model, text) ==
    \/ EmbedKey("embedding_query", model, text) \in DOMAIN r
    \/ EmbedKey("embedding_doc", model, text) \in DOMAIN r
    \/ ContentKey(text) \in DOMAIN r

\* C7: once any embedding path has cached the vector of a text under a
\* model, a later request for it by any path does not encode it again.
C7_CacheSharedByPaths ==
    (last.op \in EmbedOps /\ last.up) =>
        \A i \in 1..Len(last.args) :
            CachedBySomePath(last.before, last.name, last.args[i])
                => Occurrences(last.log, last.args[i]) = 0

\* C8: with the Redis server unreachable embed_query, embed_documents and
\* similarity_search raise no cache error, leave the store alone and return
\* what a cache miss returns, computing every text and every ranking.
C8_CacheFailureDegrades ==
    (last.op \in {"embed_query", "embed_documents", "similarity_search"} /\ ~last.up) =>
        /\ last.err # "CacheError"
        /\ redis = last.before
        /\ last.op = "similarity_search" =>
              /\ last.ok /\ ~last.hit
              /\ last.result = RankBySimilarity(chunks, last.query_vector, last.kb_id,
                                                last.top_k)
        /\ (last.op = "embed_query" /\ last.ok) =>
              /\ last.log = last.args
              /\ last.result = Encode(model_name, last.args[1])
        /\ (last.op = "embed_documents" /\ last.ok) =>
              /\ last.log = last.args
              /\ Len(last.result) = Len(last.args)
              /\ \A i \in 1..Len(last.args) :
                    last.result[i] = Encode(model_name, last.args[i])
        /\ ~last.ok => last.err \in {"RuntimeError", "ProviderError"}

\* A search while Redis is down, over a cache that still holds an older
\* ranking under the key of this search.
C8_Witness ==
    /\ last.op = "similarity_search" /\ ~last.up /\ last.ok
    /\ LET key == SimKey(last.query_vector, last.kb_id, last.top_k)
       IN  key \in DOMAIN last.before /\ last.before[key] # last.result

\* C9: for a positive top_k similarity_search returns at most top_k results,
\* and every chunk of the knowledge base when it holds fewer than top_k.
C9_AtMostTopKAndAllWhenFewer ==
    (last.op = "similarity_search" /\ last.ok /\ last.top_k > 0) =>
        /\ Len(last.result) <= last.top_k
        /\ Cardinality(KbResults(last.kb_id)) < last.top_k =>
              {last.result[i] : i \in 1..Len(last.result)} = KbResults(last.kb_id)

\* keyword, compared without regard to case, occurs in content.
OccursIgnoringCase(keyword, content) ==
    \E off \in 0..(Len(content) - Len(keyword)) :
        \A j \in 1..Len(keyword) : LowerChar(content[off + j]) = LowerChar(keyword[j])

\* 0.7 x cosine similarity + 0.3 x keyword score, in thousandths.
WeightedScore(query_vector, keyword, x) ==
    7 * cosine_similarity(query_vector, x.embedding)
      + 3 * (IF OccursIgnoringCase(keyword, x.content) THEN 100 ELSE 0)

\* C10: hybrid_search returns the first top_k chunks of the knowledge base
\* by descending 0.7 x cosine + 0.3 x keyword score, the keyword score being
\* 1 exactly when the keyword occurs in the content whatever the case, and
\* equal scores in load order.
C10_HybridRanking ==
    (last.op = "hybrid_search" /\ last.ok) =>
        IsRanking(last.result, KbResults(last.kb_id),
                  LAMBDA x : WeightedScore(last.query_vector, last.keyword, x),
                  last.top_k)

\* A keyword in another case than the content lifts a chunk above one that
\* is closer to the query.
C10_Witness ==
    /\ last.op = "hybrid_search" /\ last.ok
    /\ Len(last.result) >= 2
    /\ cosine_similarity(last.query_vector, last.result[1].embedding)
         < cosine_similarity(last.query_vector, last.result[2].embedding)
    /\ OccursIgnoringCase(last.keyword, last.result[1].content)
    /\ ~Contains(last.result[1].content, last.keyword)

\* C11: for a kb_id without a knowledge base both searches return an empty
\* list and raise nothing, whatever the cache holds, while the lookup
\* get_knowledge_base_by_id finds no row and its route reports not found.
C11_UnknownKb ==
    /\ (last.op \in Searches /\ last.kb_id \notin knowledge_bases) =>
           last.ok /\ last.result = <<>>
    /\ (last.op = "get_knowledge_base_by_id" /\ last.kb_id \notin knowledge_bases) =>
           last.result = None
    /\ (last.op = "get_knowledge_base_info" /\ last.kb_id \notin knowledge_bases) =>
           ~last.ok /\ last.err = "HTTP404"

\* C12: a storage failure while a search is served reaches the caller as an
\* error, from similarity_search, hybrid_search and retrieve_relevant_content
\* alike, and an empty or no-context result is returned only for a knowledge
\* base without chunks.
C12_StorageFailureSurfaces ==
    /\ (last.op \in Searches /\ ~last.db /\ ~last.hit) =>
           ~last.ok /\ last.err = "StorageError"
    /\ (last.op \in Searches /\ last.ok /\ last.result = <<>>) =>
           KbResults(last.kb_id) = {}
    /\ (last.op = "retrieve_relevant_content" /\ last.raised = "StorageError") =>
           ~last.ok /\ last.err = "StorageError"
    /\ (last.op = "retrieve_relevant_content" /\ last.ok
           /\ last.raised \in {"", "StorageError"}
           /\ last.result \in {<<>>, NoContext}) =>
           KbResults(last.kb_id) = {}

\* How many of the rows carry document_id d.
RowsOfCall(rows, d) == Cardinality({n \in 1..Len(rows) : rows[n].document_id = d})

\* The rows an add_chunks call is to store: one per pair of its lists.
CallSize(l) == Min(Len(l.chunks), Len(l.embeddings))

\* C13: each add_chunks call is all or nothing under every interleaving of
\* two calls on one knowledge base: the table, and so every reader, holds
\* none or all of a call's chunks, none while the call is under way or after
\* it failed, and all after it committed, whatever the other call did.
C13_BatchAllOrNothing ==
    /\ \A t \in Threads :
          /\ RowsOfCall(chunks, t) \in {0, CallSize(local[t])}
          /\ pc[t] \in {"idle", "adding"} => RowsOfCall(chunks, t) = 0
          /\ (pc[t] = "done" /\ ~local[t].ok) => RowsOfCall(chunks, t) = 0
          /\ (pc[t] = "done" /\ local[t].ok) => RowsOfCall(chunks, t) = CallSize(local[t])
    /\ (last.op = "hybrid_search" /\ last.ok) =>
          \A t \in Threads : RowsOfCall(last.result, t) \in {0, CallSize(local[t])}

\* A reader saw the two chunks of one call and none of the other call's,
\* which committed later: in the end the knowledge base holds all three.
C13_Witness ==
    /\ \A t \in Threads : pc[t] = "done" /\ local[t].ok
    /\ Len(chunks) = 3
    /\ last.op = "hybrid_search" /\ last.ok /\ Len(last.result) = 2

\* C14: search is eventually complete: ingestion ends, the entries cached
\* before it run out, and from then on every similarity_search returns a
\* ranking computed over all the chunks its knowledge base holds.
C14_EventuallyComplete ==
    <>[][(last'.op = "similarity_search" /\ last' # last) =>
            \E q \in StoreQueries :
                last'.result = RankBySimilarity(chunks', q, last'.kb_id, last'.top_k)]_vars

\* A search that missed and ranked both chunks, while the entry of another
\* top_k, cached before the second ingestion, still holds one chunk.
C14_Witness ==
    /\ last.op = "similarity_search" /\ ~last.hit /\ last.top_k = MaxTopK
    /\ Len(chunks) > 1 /\ Len(last.result) = Len(chunks)
    /\ LET key == SimKey(last.query_vector, 1, MaxTopK - 1)
       IN  /\ key \in DOMAIN redis
           /\ Len(redis[key]) < Len(chunks)
           /\ Len(redis[key]) < MaxTopK - 1

\* C15: every chunk a search returns for kb_id is a chunk of that knowledge
\* base, whether it was ranked now or taken from the result cache.
C15_SearchIsolation ==
    (last.op \in Searches /\ last.ok) =>
        \A i \in 1..Len(last.result) :
            /\ last.result[i].kb_id = last.kb_id
            /\ last.result[i] \in KbResults(last.kb_id)

\* A search of the second knowledge base served from the cache, while the
\* first holds a chunk and has a cached ranking of its own.
C15_Witness ==
    /\ last.op = "similarity_search" /\ last.hit /\ last.kb_id = 2
    /\ last.result # <<>>
    /\ KbResults(1) # {}
    /\ SimKey(last.query_vector, 1, last.top_k) \in DOMAIN last.before

\* texts[i:i + batch_size] of the b-th turn of the loop of embed_documents.
BatchOf(texts, b) == Slice(texts, (b - 1) * batch_size, b * batch_size)

NumBatches(texts) == (Len(texts) + batch_size - 1) \div batch_size

\* Every invocation encoded texts of a batch of its own, later ones of
\* later batches: no batch went to the capability twice.
OneCallPerBatch(calls, texts) ==
    \E m \in [1..Len(calls) -> 1..NumBatches(texts)] :
        /\ \A k, n \in 1..Len(calls) : k < n => m[k] < m[n]
        /\ \A k \in 1..Len(calls) :
              /\ Len(calls[k]) <= Len(BatchOf(texts, m[k]))
              /\ \A j \in 1..Len(calls[k]) :
                    Occurrences(BatchOf(texts, m[k]), calls[k][j]) > 0

\* C16: when the capability fails in embed_query or in a batch of
\* embed_documents the call raises and returns no vectors, the failed batch
\* is not handed to the capability again, and the cache holds nothing new
\* for the texts of that batch.
C16_CapabilityFailureRaised ==
    (last.op \in {"embed_query", "embed_documents"} /\ last.failed) =>
        /\ ~last.ok /\ last.err = "ProviderError" /\ last.result = None
        /\ OneCallPerBatch(last.calls, last.args)
        /\ \A j \in 1..Len(last.calls[Len(last.calls)]) :
              \A model \in {EMBEDDING_MODEL, fallback_model} :
                 \A prefix \in {"embedding_query", "embedding_doc"} :
                    LET key == EmbedKey(prefix, model, last.calls[Len(last.calls)][j])
                    IN  key \in DOMAIN redis =>
                           key \in DOMAIN last.before /\ redis[key] = last.before[key]

\* The capability fails on the second batch of a list, after the first
\* batch was encoded and cached.
C16_Witness ==
    /\ last.op = "embed_documents" /\ last.failed /\ ~last.ok
    /\ Len(last.calls) = 2
    /\ redis # last.before

C18_ChunksWithinSize ==
    (last.op = "split_text" /\ last.ok) =>
        \A i \in 1..Len(last.result) : Len(last.result[i]) <= last.chunk_size

\* A text that is one token longer than the chunk size, cut into several
\* pieces.
C18_Witness ==
    /\ last.op = "split_text" /\ last.ok
    /\ Len(last.text) > last.chunk_size
    /\ \A k \in 1..Len(last.text) : ~IsSpace(last.text[k])
    /\ Len(last.result) > 1

\* C19: chunking an empty text yields no chunk, and no chunk split_text or
\* split_documents produces is an empty string.
C19_NoEmptyChunk ==
    /\ (last.op = "split_text" /\ last.ok) =>
          /\ last.text = <<>> => last.result = <<>>
          /\ \A i \in 1..Len(last.result) : last.result[i] # <<>>
    /\ (last.op = "split_documents" /\ last.ok) =>
          /\ (\A n \in 1..Len(last.docs) : last.docs[n].content = <<>>) => last.result = <<>>
          /\ \A i \in 1..Len(last.result) : last.result[i].chunk_content # <<>>

\* A text with white space around and between its words, split in two.
C19_Witness ==
    /\ last.op = "split_documents" /\ last.ok
    /\ Len(last.docs) = 2
    /\ last.docs[2].content # <<>>
    /\ IsSpace(last.docs[2].content[1])
    /\ Len(last.result) = 2

ReadOps == Searches \cup {"get_knowledge_base_by_id", "get_chunks_by_kb_id",
                           "get_knowledge_base_info"}

\* C20: chunks are append-only: whatever call comes next, every stored chunk
\* stays stored with the same kb_id, document_id, content, metadata and
\* embedding, and a search, a lookup, create_knowledge_base or add_document
\* leaves the table of chunks as it is.
C20_ChunksAppendOnly ==
    [][/\ Len(chunks') >= Len(chunks)
       /\ \A n \in 1..Len(chunks) : chunks'[n] = chunks[n]
       /\ last'.op # "add_chunks" => chunks' = chunks]_vars

\* A lookup after two ingestions, a document, a knowledge base and a cached
\* search.
C20_Witness ==
    /\ last.op \in ReadOps
    /\ Len(chunks) = MaxStored
    /\ documents # <<>> /\ knowledge_bases # {} /\ redis # <<>>

\* The rows of chunks and of documents that came from a file.
ChunksOfFile(file) == {n \in 1..Len(chunks) : chunks[n].metadata.source = file.file_path}
DocumentsOfFile(file) == {n \in 1..Len(documents) : documents[n].file_path = file.file_path}

\* What a hybrid search of the knowledge base returns now, uncut.
SearchableNow(kb_id) ==
    LET found == HybridSearchCall(SearchState, chunks, Vec(10, 0, 0), <<"x">>, kb_id,
                                  Len(chunks)).result
    IN  {found[n] : n \in 1..Len(found)}

\* The state of a batch in the middle of its run or at its end.
BatchCheckpointed(t) ==
    LET l == local[t]
    IN  /\ \A j \in 1..Len(l.results) :
              LET res == l.results[j]
                  file == l.files[j]
              IN  IF res.success
                  THEN /\ \E d \in DocumentsOfFile(file) :
                             documents[d].id = res.doc_id /\ documents[d].kb_id = l.kb_id
                       /\ Cardinality(ChunksOfFile(file)) = res.chunk_count
                       /\ res.chunk_count
                            = Len(SplitDocument(Value(file.content), file.file_path))
                       /\ \A n \in ChunksOfFile(file) :
                             /\ chunks[n].kb_id = l.kb_id
                             /\ chunks[n].document_id = res.doc_id
                             /\ db_up => ResultOf(chunks[n]) \in SearchableNow(l.kb_id)
                  ELSE ChunksOfFile(file) = {}
        /\ pc[t] \in {"read", "embed", "store", "abandoned"} =>
              /\ Len(l.results) = l.i
              /\ ChunksOfFile(l.files[l.i + 1]) = {}
              /\ \A j \in (l.i + 2)..Len(l.files) :
                    ChunksOfFile(l.files[j]) = {} /\ DocumentsOfFile(l.files[j]) = {}
        /\ pc[t] = "done" => Len(l.results) = Len(l.files)
        /\ \A d1, d2 \in 1..Len(documents), j1, j2 \in 1..Len(l.files) :
              (/\ d1 < d2
               /\ documents[d1].file_path = l.files[j1].file_path
               /\ documents[d2].file_path = l.files[j2].file_path) => j1 < j2

\* C21: batch_process_documents handles the files one at a time in input
\* order; a file that fails, or the one in hand when the process stops,
\* leaves no chunk behind, the files before it stay persisted and
\* searchable, and a failure does not keep the files after it from being
\* processed: a batch that is not abandoned reaches its end with one result
\* per file.
C21_DocumentCheckpoints ==
    /\ []BatchCheckpointed(1)
    /\ (pc[1] = "read") ~> (pc[1] \in {"done", "abandoned"})

\* A finished batch of three files whose second file failed after its
\* Document row was committed, with the first and the third persisted.
C21_Witness ==
    /\ pc[1] = "done"
    /\ Len(local[1].files) = 3
    /\ local[1].results[1].success /\ local[1].results[1].chunk_count > 0
    /\ ~local[1].results[2].success
    /\ DocumentsOfFile(local[1].files[2]) # {}
    /\ local[1].results[3].success /\ local[1].results[3].chunk_count > 0

\* Every process_document call of the final pass of a batch task succeeded.
AllProcessed(call) ==
    /\ Len(call.result.results) = Len(call.files)
    /\ \A n \in 1..Len(call.result.results) : call.result.results[n].success

\* C22: once process_documents_batch_task has run over files that were all
\* processed, the knowledge base holds one Document row per file and one
\* copy of each file's chunks.
C22_EachFileOnce ==
    (last.op = "process_documents_batch_task" /\ AllProcessed(last)) =>
        \A n \in 1..Len(last.files) :
            /\ Cardinality(DocumentsOfFile(last.files[n])) = 1
            /\ Cardinality(ChunksOfFile(last.files[n]))
                 = Len(SplitDocument(Value(last.files[n].content), last.files[n].file_path))

\* C23: a batch task whose documents were all processed ends by writing
\* "completed" with progress 100 under its task key, and it writes "failed"
\* only when processing a document failed.
C23_BatchTaskCompletes ==
    last.op = "process_documents_batch_task" =>
        /\ AllProcessed(last) =>
              /\ last.writes[Len(last.writes)] = "completed"
              /\ redis[TaskKey(last.task_id)] = StatusRecord("completed", 100)
        /\ last.writes[Len(last.writes)] = "failed" => ~AllProcessed(last)

\* The statuses a single-document task has written, against where it stands.
StatusProtocol(t) ==
    LET l == local[t]
        w == l.writes
        key == TaskKey(NewTaskId(t))
    IN  /\ pc[t] \in {"idle", "queued"} => w = <<>>
        /\ pc[t] \in {"read", "embed", "store"} => w = <<"processing">>
        /\ pc[t] = "done" =>
              /\ Len(w) = 2 /\ w[1] = "processing" /\ w[2] \in TerminalStatuses
              /\ w[2] = "completed" <=> l.results[1].success
              /\ l.results[1].success =>
                    /\ \E d \in DocumentsOfFile(l.files[1]) :
                          documents[d].id = l.results[1].doc_id
                    /\ Cardinality(ChunksOfFile(l.files[1])) = l.results[1].chunk_count
                    /\ l.results[1].chunk_count
                         = Len(SplitDocument(Value(l.files[1].content), l.files[1].file_path))
        /\ key \in DOMAIN redis =>
              /\ \E n \in 1..Len(w) : redis[key].status = w[n]
              /\ redis[key].status \in TerminalStatuses => pc[t] = "done"

\* C24: process_document_task writes "processing" first, then one terminal
\* status and nothing after it; "completed" exactly when process_document
\* reported success, with the document and all its chunks committed,
\* "failed" otherwise; the stored status is one the task wrote; and every
\* started task reaches its terminal write.
C24_StatusProtocol ==
    /\ []StatusProtocol(1)
    /\ (pc[1] = "read") ~> (pc[1] = "done")

\* A finished task that wrote "completed" for a stored chunk, seen by a
\* status query.
C24_Witness ==
    /\ pc[1] = "done"
    /\ local[1].writes = <<"processing", "completed">>
    /\ ChunksOfFile(local[1].files[1]) # {}
    /\ last.op = "get_task_status" /\ last.ok
    /\ Value(last.result).status = "completed"

\* C25: once upload_document has returned a task_id, a status query for it
\* is never answered with not found, wherever the background task stands.
C25_TaskKnownOnceReturned ==
    (last.op = "get_task_status" /\ pc[1] # "idle") => last.ok

\* C26: split_long_text returns for every text and every max_length > 0,
\* also for a text with a paragraph longer than max_length, and every piece
\* it returns is at most max_length long.
C26_LongTextTerminates ==
    last.op = "split_long_text" =>
        /\ last.ok
        /\ \A n \in 1..Len(last.result) : Len(last.result[n]) <= last.max_length

\* C27: split_long_text returns no empty piece for a text whose paragraphs
\* are each at most max_length long.
C27_NoEmptyPiece ==
    (last.op = "split_long_text" /\ last.ok) =>
        \A n \in 1..Len(last.result) : last.result[n] # <<>>

\* C28: every vector the embedding cache holds under a key derived from a
\* model name was computed by that model, also after _load_model has
\* switched to the fallback model.
C28_KeyNamesComputingModel ==
    \A key \in DOMAIN redis :
        \A prefix \in {"embedding_query", "embedding_doc"},
           model \in {EMBEDDING_MODEL, fallback_model}, text \in Texts :
            key = EmbedKey(prefix, model, text) => redis[key] = Encode(model, text)

ProcessErrors == {"ValueError", "StorageError", "RuntimeError", "ProviderError"}

\* C29: a process_document call that returns success=False has persisted no
\* chunk; at most the Document row of its file is left behind; and the error
\* is in the returned dict, the caller going on with it.
C29_FailedCallStoresNoChunk ==
    LET l == local[1]
    IN  /\ \A j \in 1..Len(l.results) :
              ~l.results[j].success =>
                  /\ ChunksOfFile(l.files[j]) = {}
                  /\ Cardinality(DocumentsOfFile(l.files[j])) <= 1
                  /\ l.results[j].error \in ProcessErrors
                  /\ l.results[j].chunk_count = 0
        /\ Len(chunks) = SumChunkCounts(l.results, 1)
        /\ \A n \in 1..Len(chunks) :
              \E j \in 1..Len(l.results) :
                  l.results[j].success /\ chunks[n].document_id = l.results[j].doc_id

\* A call that failed in add_chunks: its Document row is stored, no chunk is.
C29_Witness ==
    /\ pc[1] = "done"
    /\ Len(local[1].files) = 1
    /\ ~local[1].results[1].success
    /\ local[1].results[1].error = "StorageError"
    /\ DocumentsOfFile(local[1].files[1]) # {}
    /\ chunks = <<>>

\* C30: an add_chunks call that returns without error has added one row per
\* input chunk, row i holding chunks[i] and embeddings[i]; lists of unequal
\* length are not stored short.
C30_OneRowPerChunk ==
    (last.op = "add_chunks" /\ last.ok) =>
        /\ Len(chunks) = Len(last.rows) + Len(last.chunks)
        /\ \A i \in 1..Len(last.chunks) :
              /\ i <= Len(last.embeddings)
              /\ Len(last.rows) + i <= Len(chunks)
              /\ chunks[Len(last.rows) + i].kb_id = last.kb_id
              /\ chunks[Len(last.rows) + i].content = last.chunks[i].chunk_content
              /\ chunks[Len(last.rows) + i].embedding = last.embeddings[i]

====
